---- MODULE Spec2Model ----
(***************************************************************************)
(* The ROI tracker of telegram_bot/roi_tracker.py (class ROITracker): the  *)
(* registry of tracked signals, the threshold cascade of                   *)
(* update_signal_price, the fill handlers, the weighted ROI and the store. *)
(*                                                                         *)
(* Units.  Prices are whole numbers.  A position fraction is held in       *)
(* hundredths (0.25 is 25, 1.0 is 100), a percent return in whole percent, *)
(* and a weighted contribution or an ROI, the product of the two, in       *)
(* hundredths of a percent (0.75 is 75).  The entry prices of Definitions  *)
(* divide every (price - entry) * 100 of the price grid, so the division   *)
(* of the code is exact here and floating-point rounding is left out.      *)
(***************************************************************************)
EXTENDS Integers, Sequences, FiniteSets, TLC

VARIABLES
    metrics,            \* the ROIMetrics objects ever constructed, by object number
    active_signals,     \* self.active_signals: signal_id -> object number
    completed_signals,  \* self.completed_signals: sequence of object numbers
    db,                 \* the rows of the signals table
    now,                \* the wall clock read by datetime.now(), in ticks
    polls,              \* history: per object, the prices update_signal_price got
    events,             \* history: per object, the events it returned (not None),
                        \* each with the branch of the cascade that returned it
    monitors,           \* the _monitor_signal tasks created, in order of creation
    raised,             \* history: the exception the last update_signal_price or
                        \* _close_signal call raised, "none" if it returned
    store_log,          \* history: the _update_signal_in_db calls of the last
                        \* update_signal_price or _close_signal call, in order
    save_log,           \* history: the INSERT of the last register_signal call
    sent,               \* history: the send_alert calls of the last
                        \* update_signal_price call
    feed_log,           \* history: the last _get_current_price call
    stopped,            \* history: how many tasks had been created when
                        \* stop_monitoring was last called
    stats               \* history: the calls of get_statistics and their results

vars == <<metrics, active_signals, completed_signals, db, now, polls, events,
          monitors, raised, store_log, save_log, sent, feed_log, stopped,
          stats>>

---------------------------------------------------------------------------
\* Bounds of the model.
MaxSignals == 1
MaxPolls == 4
MaxTime == 2
\* Bounds of the registry specification: registrations, monitor tasks
\* that may exist when start_monitoring is called, polls of one object.
MaxRegistered == 2
MaxMonitors == 1
MaxRegistryPolls == 1
\* Bound of the retirement specification: entries of the completed archive.
MaxArchive == 3
\* Bound of the store specification: polls of one object.
MaxStorePolls == 2
\* Bounds of the task specification: registrations, objects, tasks, polls
\* of one object.
MaxTaskSignals == 1
MaxTaskObjects == 2
MaxTasks == 2
MaxTaskPolls == 1
\* Bound of the feed specification: polls of one object.
MaxFeedPolls == 1
\* Bounds of the statistics specification: registrations, polls of one
\* object, calls of get_statistics.
MaxStatSignals == 2
MaxStatPolls == 3
MaxStatCalls == 1
\* Bounds of the recovery specification: registrations, objects, tasks,
\* polls of one object.
MaxRecoverySignals == 1
MaxRecoveryObjects == 2
MaxRecoveryTasks == 2
MaxRecoveryPolls == 2
\* Bounds of the overlap specification: registrations, objects, tasks,
\* polls of one object.
MaxOverlapSignals == 1
MaxOverlapObjects == 1
MaxOverlapTasks == 2
MaxOverlapPolls == 2
\* Bounds of the twin specification: registrations, polls of one object.
MaxTwinSignals == 1
MaxTwinPolls == 4

\* ROITracker.__init__: the allocation of the position over the targets.
tp1_percentage == 25
tp2_percentage == 50
tp3_percentage == 25
\* The 1.0 of "remaining_percent = 1.0 - closed_percent".
FullPosition == 100
\* _update_signal_in_db: max_retries.
max_retries == 10
\* _update_signal_in_db: retry_delay, 0.2 s, in tenths of a second.
retry_delay == 2

\* Python's None where a time is expected; the clock starts at 1.
None == 0

\* The prices a poll can yield.
Prices == 97 .. 103

\* How many attempts in a row the store answers "database is locked".
Contention == {0, max_retries}

\* How many connections in a row refuse the INSERT of register_signal: none,
\* or the first only.
SaveContention == {0, 1}

\* The same in the store specification: any number of attempts up to all.
StoreContention == 0 .. max_retries

\* The prices a poll can yield in the store specification: a stop, a first
\* target and a last target of a LONG signal.
StorePrices == {98, 101, 103}

\* The prices a poll can yield in the registry specification: one that
\* reaches the stop of a LONG signal and one that reaches its last target.
RegistryPrices == {98, 103}

\* The signal dicts a producer hands to register_signal.  register_signal
\* accepts any dict, so one with a zero entry price is an input too.
Definitions ==
    { [symbol |-> "BTC", direction |-> "long",  entry_price |-> 100,
       stop_loss |-> 98,  tp1 |-> 101, tp2 |-> 102, tp3 |-> 103],
      [symbol |-> "ETH", direction |-> "short", entry_price |-> 100,
       stop_loss |-> 102, tp1 |-> 99,  tp2 |-> 98,  tp3 |-> 97],
      [symbol |-> "BTC", direction |-> "long",  entry_price |-> 0,
       stop_loss |-> 98,  tp1 |-> 101, tp2 |-> 102, tp3 |-> 103] }

TPLevels == {"tp1", "tp2", "tp3"}

---------------------------------------------------------------------------
\* Sum of f[i] over i in 1..Len(f), as Python's sum() over a list.
RECURSIVE SumSeq(_)
SumSeq(s) == IF s = <<>> THEN 0 ELSE Head(s) + SumSeq(Tail(s))

\* class ROIMetrics with its defaults.
ROIMetrics(signal_id, d, entry_time) ==
    [signal_id |-> signal_id, symbol |-> d.symbol, direction |-> d.direction,
     entry_price |-> d.entry_price, stop_loss |-> d.stop_loss,
     tp1 |-> d.tp1, tp2 |-> d.tp2, tp3 |-> d.tp3,
     tp1_hit |-> FALSE, tp2_hit |-> FALSE, tp3_hit |-> FALSE, sl_hit |-> FALSE,
     current_roi |-> 0, status |-> "active",
     entry_time |-> entry_time, close_time |-> None, fills |-> <<>>]

\* The event dicts update_signal_price returns, in one record shape: level
\* is "none" where the dict has no "level" key, amount is its "profit" or
\* "loss".  NoEvent is Python's None.
NoEvent == [type |-> "none", level |-> "none", price |-> 0, amount |-> 0]
ErrorEvent == [type |-> "error", level |-> "none", price |-> 0, amount |-> 0]

\* f"{symbol}_{int(datetime.now().timestamp())}"
SignalId(symbol, t) == <<symbol, t>>

\* ProfitPercent with the LONG formula on every direction.
ProfitPercentLongOnly(m, price) ==
    ((price - m.entry_price) * 100) \div m.entry_price

\* The direction-aware percent return of _handle_tp_hit, _handle_sl_hit and
\* _calculate_current_roi: "long" one way, anything else the other.
ProfitPercent(m, price) ==
    IF m.direction = "long"
    THEN ((price - m.entry_price) * 100) \div m.entry_price
    ELSE ((m.entry_price - price) * 100) \div m.entry_price

\* closed_percent of _handle_sl_hit and _calculate_current_roi.
ClosedPercent(m) ==
    (IF m.tp1_hit THEN tp1_percentage ELSE 0)
  + (IF m.tp2_hit THEN tp2_percentage ELSE 0)
  + (IF m.tp3_hit THEN tp3_percentage ELSE 0)

\* Threshold without the "not metrics.tp1_hit" of the TP1 branches.
ThresholdRefires(m, price) ==
    IF m.direction = "long" THEN
        IF ~m.tp3_hit /\ price >= m.tp3 THEN "tp3"
        ELSE IF ~m.tp2_hit /\ price >= m.tp2 THEN "tp2"
        ELSE IF price >= m.tp1 THEN "tp1"
        ELSE IF ~m.sl_hit /\ price <= m.stop_loss THEN "stop_loss"
        ELSE "none"
    ELSE IF m.direction = "short" THEN
        IF ~m.tp3_hit /\ price <= m.tp3 THEN "tp3"
        ELSE IF ~m.tp2_hit /\ price <= m.tp2 THEN "tp2"
        ELSE IF price <= m.tp1 THEN "tp1"
        ELSE IF ~m.sl_hit /\ price >= m.stop_loss THEN "stop_loss"
        ELSE "none"
    ELSE "none"

\* Threshold with the targets tried lowest first.
ThresholdLowestFirst(m, price) ==
    IF m.direction = "long" THEN
        IF ~m.tp1_hit /\ price >= m.tp1 THEN "tp1"
        ELSE IF ~m.tp2_hit /\ price >= m.tp2 THEN "tp2"
        ELSE IF ~m.tp3_hit /\ price >= m.tp3 THEN "tp3"
        ELSE IF ~m.sl_hit /\ price <= m.stop_loss THEN "stop_loss"
        ELSE "none"
    ELSE IF m.direction = "short" THEN
        IF ~m.tp1_hit /\ price <= m.tp1 THEN "tp1"
        ELSE IF ~m.tp2_hit /\ price <= m.tp2 THEN "tp2"
        ELSE IF ~m.tp3_hit /\ price <= m.tp3 THEN "tp3"
        ELSE IF ~m.sl_hit /\ price >= m.stop_loss THEN "stop_loss"
        ELSE "none"
    ELSE "none"

\* The cascade of update_signal_price: the level whose branch is taken.
Threshold(m, price) ==
    IF m.direction = "long" THEN
        IF ~m.tp3_hit /\ price >= m.tp3 THEN "tp3"
        ELSE IF ~m.tp2_hit /\ price >= m.tp2 THEN "tp2"
        ELSE IF ~m.tp1_hit /\ price >= m.tp1 THEN "tp1"
        ELSE IF ~m.sl_hit /\ price <= m.stop_loss THEN "stop_loss"
        ELSE "none"
    ELSE IF m.direction = "short" THEN
        IF ~m.tp3_hit /\ price <= m.tp3 THEN "tp3"
        ELSE IF ~m.tp2_hit /\ price <= m.tp2 THEN "tp2"
        ELSE IF ~m.tp1_hit /\ price <= m.tp1 THEN "tp1"
        ELSE IF ~m.sl_hit /\ price >= m.stop_loss THEN "stop_loss"
        ELSE "none"
    ELSE "none"

\* SetHit that leaves the flag of the branch as it is.
SetHitOmitted(m, level) == m

\* "metrics.tpN_hit = True" / "metrics.sl_hit = True" of the taken branch.
SetHit(m, level) ==
    CASE level = "tp1" -> [m EXCEPT !.tp1_hit = TRUE]
      [] level = "tp2" -> [m EXCEPT !.tp2_hit = TRUE]
      [] level = "tp3" -> [m EXCEPT !.tp3_hit = TRUE]
      [] level = "stop_loss" -> [m EXCEPT !.sl_hit = TRUE]
      [] OTHER -> m

\* close_percent of _handle_tp_hit.
ClosePercent(tp_level) ==
    IF tp_level = "tp1" THEN tp1_percentage
    ELSE IF tp_level = "tp2" THEN tp2_percentage
    ELSE tp3_percentage

\* ClosesAfterTp that never closes.
ClosesAfterTpNever(m, tp_level) == ""

\* The test _handle_tp_hit makes after its notification, on the flags as
\* they are then: the status to close with, "" for no close.
ClosesAfterTp(m, tp_level) ==
    IF tp_level = "tp3" \/ (m.tp1_hit /\ m.tp2_hit /\ m.tp3_hit)
    THEN "completed" ELSE ""

\* _handle_tp_hit up to its return, without the _close_signal it awaits:
\* the object, the event returned and the status to close with ("" for
\* no close).
_handle_tp_hit(m, tp_level, price, t) ==
    IF m.entry_price = 0
    THEN [m |-> m, event |-> ErrorEvent, close |-> ""]
    ELSE LET close_percent == ClosePercent(tp_level)
             profit_percent == ProfitPercent(m, price)
             weighted_profit == profit_percent * close_percent
             fill == [level |-> tp_level, price |-> price,
                      percentage |-> close_percent,
                      profit_percent |-> profit_percent,
                      weighted_profit |-> weighted_profit, timestamp |-> t]
         IN  [m |-> [m EXCEPT !.fills = Append(@, fill)],
              event |-> [type |-> "tp_hit", level |-> tp_level,
                         price |-> price, amount |-> weighted_profit],
              close |-> ClosesAfterTp(m, tp_level)]

\* StopRemaining that closes the whole position whatever was closed before.
StopRemainingFull(m) == FullPosition

\* remaining_percent of _handle_sl_hit.
StopRemaining(m) == FullPosition - ClosedPercent(m)

\* _handle_sl_hit, in the same shape.
_handle_sl_hit(m, price, t) ==
    IF m.entry_price = 0
    THEN [m |-> m, event |-> ErrorEvent, close |-> ""]
    ELSE LET loss_percent == ProfitPercent(m, price)
             remaining_percent == StopRemaining(m)
             weighted_loss == loss_percent * remaining_percent
             fill == [level |-> "stop_loss", price |-> price,
                      percentage |-> remaining_percent,
                      profit_percent |-> loss_percent,
                      weighted_profit |-> weighted_loss, timestamp |-> t]
         IN  [m |-> [m EXCEPT !.fills = Append(@, fill)],
              event |-> [type |-> "sl_hit", level |-> "none",
                         price |-> price, amount |-> weighted_loss],
              close |-> "stopped"]

\* closed_roi / final_roi: sum([fill["weighted_profit"] for fill in fills]).
ClosedRoi(m) ==
    SumSeq([i \in 1 .. Len(m.fills) |-> m.fills[i].weighted_profit])

\* _calculate_current_roi weighting the unrealized return with the whole
\* position instead of the open part.
CurrentRoiWholePosition(m, current_price) ==
    LET closed_roi == ClosedRoi(m)
        remaining_percent == FullPosition - ClosedPercent(m)
    IN  IF remaining_percent > 0
        THEN IF m.entry_price = 0
             THEN closed_roi
             ELSE closed_roi + ProfitPercent(m, current_price) * FullPosition
        ELSE closed_roi + 0

\* _calculate_current_roi.
_calculate_current_roi(m, current_price) ==
    LET closed_roi == ClosedRoi(m)
        remaining_percent == FullPosition - ClosedPercent(m)
    IN  IF remaining_percent > 0
        THEN IF m.entry_price = 0
             THEN closed_roi
             ELSE closed_roi + ProfitPercent(m, current_price) * remaining_percent
        ELSE closed_roi + 0

\* ZeroDivision without the "entry_price == 0" guards of the two handlers
\* and of _calculate_current_roi.
ZeroDivisionUnguarded(m, level) ==
    LET tp_divides == level \in TPLevels
        sl_divides == level = "stop_loss"
        roi_divides == FullPosition - ClosedPercent(m) > 0
    IN  (tp_divides \/ sl_divides \/ roi_divides) /\ m.entry_price = 0

\* Whether an update_signal_price call that took the branch of `level` on
\* m (its hit flag set) evaluates a "/ metrics.entry_price" with a zero
\* entry price, which raises ZeroDivisionError: _handle_tp_hit and
\* _handle_sl_hit divide once past their "entry_price == 0" return, and
\* _calculate_current_roi divides when something is open and it is past
\* its own.
ZeroDivision(m, level) ==
    LET tp_divides == level \in TPLevels /\ ~(m.entry_price = 0)
        sl_divides == level = "stop_loss" /\ ~(m.entry_price = 0)
        roi_divides == FullPosition - ClosedPercent(m) > 0 /\ ~(m.entry_price = 0)
    IN  (tp_divides \/ sl_divides \/ roi_divides) /\ m.entry_price = 0

\* _close_signal, the fields of the object: status, close_time, current_roi.
_close_signal(m, status, t) ==
    [m EXCEPT !.status = status, !.close_time = t, !.current_roi = ClosedRoi(m)]

\* Retire without the del: the closed signal stays in the active set.
RetireKeeps(active, signal_id) == active

\* _close_signal, "del self.active_signals[metrics.signal_id]".
Retire(active, signal_id) ==
    [i \in (DOMAIN active) \ {signal_id} |-> active[i]]

\* "self.active_signals[signal_id] = metrics".
Track(active, signal_id, o) ==
    [i \in (DOMAIN active) \cup {signal_id} |->
        IF i = signal_id THEN o ELSE active[i]]

---------------------------------------------------------------------------
\* The store.

\* The row _save_signal_to_db inserts; the columns it does not name take
\* the defaults of an empty row.
NewRow(m) ==
    [symbol |-> m.symbol, direction |-> m.direction,
     entry_price |-> m.entry_price, stop_loss |-> m.stop_loss,
     tp1 |-> m.tp1, tp2 |-> m.tp2, tp3 |-> m.tp3,
     status |-> m.status, timestamp |-> m.entry_time,
     roi |-> 0, tp1_hit |-> FALSE, tp2_hit |-> FALSE, tp3_hit |-> FALSE,
     sl_hit |-> FALSE, close_time |-> None]

\* _save_signal_to_db when the first `locked` connections to the store are
\* refused ("database is locked", or any other exception): one INSERT, made
\* once; an exception is logged and swallowed.
_save_signal_to_db(rows, m, locked) ==
    IF locked = 0 THEN Append(rows, NewRow(m)) ELSE rows

\* The record save_log keeps of one _save_signal_to_db call: the attempts
\* it made and the rows it inserted.
SaveCall(rows, m, locked) ==
    [signal_id |-> m.signal_id, locked |-> locked, attempts |-> 1,
     inserted |-> Len(_save_signal_to_db(rows, m, locked)) - Len(rows)]

\* The two UPDATE statements of _update_signal_in_db on one row.
UpdateRow(row, m, final) ==
    IF row.symbol = m.symbol /\ row.timestamp = m.entry_time
    THEN IF final
         THEN [row EXCEPT !.status = m.status, !.roi = m.current_roi,
                          !.close_time = m.close_time]
         ELSE [row EXCEPT !.roi = m.current_roi,
                          !.tp1_hit = m.tp1_hit, !.tp2_hit = m.tp2_hit,
                          !.tp3_hit = m.tp3_hit, !.sl_hit = m.sl_hit]
    ELSE row

\* UpdateLoop that sleeps retry_delay before every retry.
RECURSIVE UpdateLoopFixedDelay(_, _, _)
UpdateLoopFixedDelay(attempt, locked, trace) ==
    IF attempt >= max_retries THEN trace
    ELSE IF attempt >= locked
    THEN [trace EXCEPT !.attempts = @ + 1, !.applied = @ + 1]
    ELSE IF attempt < max_retries - 1
    THEN UpdateLoopFixedDelay(attempt + 1, locked,
                              [trace EXCEPT !.attempts = @ + 1,
                                            !.delays = Append(@, retry_delay)])
    ELSE [trace EXCEPT !.attempts = @ + 1]

\* UpdateLoop that goes on after the last attempt instead of breaking.
RECURSIVE UpdateLoopOneMore(_, _, _)
UpdateLoopOneMore(attempt, locked, trace) ==
    IF attempt >= max_retries + 1 THEN trace
    ELSE IF attempt >= locked
    THEN [trace EXCEPT !.attempts = @ + 1, !.applied = @ + 1]
    ELSE UpdateLoopOneMore(attempt + 1, locked,
                           [trace EXCEPT !.attempts = @ + 1,
                                         !.delays = Append(@, retry_delay * 2 ^ attempt)])

\* What one _update_signal_in_db call has done so far: the attempts made,
\* the delays slept (tenths of a second) and the commits.
NoAttempt == [attempts |-> 0, delays |-> <<>>, applied |-> 0]

\* "for attempt in range(max_retries)" from `attempt` on, when the first
\* `locked` attempts meet "database is locked": a commit returns, a locked
\* attempt sleeps retry_delay * 2**attempt and goes on unless it is the
\* last one, which logs and breaks.
RECURSIVE UpdateLoop(_, _, _)
UpdateLoop(attempt, locked, trace) ==
    IF attempt >= max_retries THEN trace
    ELSE IF attempt >= locked
    THEN [trace EXCEPT !.attempts = @ + 1, !.applied = @ + 1]
    ELSE IF attempt < max_retries - 1
    THEN UpdateLoop(attempt + 1, locked,
                    [trace EXCEPT !.attempts = @ + 1,
                                  !.delays = Append(@, retry_delay * 2 ^ attempt)])
    ELSE [trace EXCEPT !.attempts = @ + 1]

\* The record store_log keeps of one _update_signal_in_db call.
StoreCall(m, final, locked) ==
    LET trace == UpdateLoop(0, locked, NoAttempt)
    IN  [signal_id |-> m.signal_id, final |-> final, locked |-> locked,
         attempts |-> trace.attempts, delays |-> trace.delays,
         applied |-> trace.applied]

\* _update_signal_in_db when the first `locked` attempts meet "database is
\* locked": the rows after the call.
_update_signal_in_db(rows, m, final, locked) ==
    IF UpdateLoop(0, locked, NoAttempt).applied > 0
    THEN [i \in 1 .. Len(rows) |-> UpdateRow(rows[i], m, final)]
    ELSE rows

---------------------------------------------------------------------------
Init ==
    /\ metrics = <<>>
    /\ active_signals = <<>>
    /\ completed_signals = <<>>
    /\ db = <<>>
    /\ now = 1
    /\ polls = <<>>
    /\ events = <<>>
    /\ monitors = <<>>
    /\ raised = "none"
    /\ store_log = <<>>
    /\ save_log = <<>>
    /\ sent = <<>>
    /\ feed_log = <<>>
    /\ stopped = 0
    /\ stats = <<>>

\* datetime.now() moves on between two operations.
Tick ==
    /\ now' = now + 1
    /\ UNCHANGED <<metrics, active_signals, completed_signals, db, polls, events,
                   monitors, raised, store_log, save_log, sent, feed_log,
                   stopped, stats>>

\* register_signal(signal); `locked` is how many connections to the store
\* in a row are refused from now on.
register_signal(d, locked) ==
    /\ LET signal_id == SignalId(d.symbol, now)
           m == ROIMetrics(signal_id, d, now)
           o == Len(metrics) + 1
       IN  /\ metrics' = Append(metrics, m)
           /\ active_signals' = Track(active_signals, signal_id, o)
           /\ db' = _save_signal_to_db(db, m, locked)
           /\ save_log' = <<SaveCall(db, m, locked)>>
           /\ polls' = Append(polls, <<>>)
           /\ events' = Append(events, <<>>)
    /\ UNCHANGED <<completed_signals, now, monitors, raised, store_log, sent,
                   feed_log, stopped, stats>>

\* Whether self.telegram is set and, if so, what send_alert does.
Notifications == {"absent", "sent", "error"}

\* _send_tp_notification and _send_stop_notification: nothing without a
\* handler; otherwise one send_alert call, whose exception is logged and
\* swallowed.  The record sent keeps of it.
_send_notification(m, level, notify) ==
    IF notify = "absent" THEN <<>>
    ELSE <<[signal_id |-> m.signal_id, level |-> level, outcome |-> notify]>>

\* Notifies that takes a call without a hit for one as well.
NotifiesAlways(event) == TRUE

\* Whether a handler got as far as its notification: it returned a hit,
\* not the entry_price_zero error.
Notifies(event) == event.type \in {"tp_hit", "sl_hit"}

\* update_signal_price(signal_id, current_price) for an id that is tracked;
\* notify is what the notification meets, locked_final and locked are the
\* contention met by the two store writes.
update_signal_price(signal_id, current_price, notify, locked_final, locked) ==
    /\ signal_id \in DOMAIN active_signals
    /\ LET o == active_signals[signal_id]
           level == Threshold(metrics[o], current_price)
           hit == SetHit(metrics[o], level)
       IN  IF ZeroDivision(hit, level)
           THEN /\ metrics' = [metrics EXCEPT ![o] = hit]
                /\ polls' = [polls EXCEPT ![o] = Append(@, current_price)]
                /\ raised' = "ZeroDivisionError"
                /\ store_log' = <<>>
                /\ sent' = <<>>
                /\ UNCHANGED <<active_signals, completed_signals, db, events>>
           ELSE
           LET
           h == IF level \in TPLevels
                THEN _handle_tp_hit(hit, level, current_price, now)
                ELSE IF level = "stop_loss"
                THEN _handle_sl_hit(hit, current_price, now)
                ELSE [m |-> hit, event |-> NoEvent, close |-> ""]
           closes == h.close # ""
           closed == IF closes THEN _close_signal(h.m, h.close, now) ELSE h.m
           db1 == IF closes
                  THEN _update_signal_in_db(db, closed, TRUE, locked_final)
                  ELSE db
           m == [closed EXCEPT
                    !.current_roi = _calculate_current_roi(closed, current_price)]
       IN  /\ metrics' = [metrics EXCEPT ![o] = m]
           /\ active_signals' =
                 IF closes THEN Retire(active_signals, signal_id)
                 ELSE active_signals
           /\ completed_signals' =
                 IF closes THEN Append(completed_signals, o)
                 ELSE completed_signals
           /\ db' = _update_signal_in_db(db1, m, FALSE, locked)
           /\ polls' = [polls EXCEPT ![o] = Append(@, current_price)]
           /\ events' = IF h.event = NoEvent THEN events
                        ELSE [events EXCEPT
                                 ![o] = Append(@, [level |-> level, event |-> h.event])]
           /\ raised' = "none"
           /\ store_log' =
                 (IF closes THEN <<StoreCall(closed, TRUE, locked_final)>> ELSE <<>>)
                 \o <<StoreCall(m, FALSE, locked)>>
           /\ sent' = IF Notifies(h.event)
                      THEN _send_notification(h.m, level, notify)
                      ELSE <<>>
    /\ UNCHANGED <<now, monitors, save_log, feed_log, stopped, stats>>

\* update_signal_price for an id that is not tracked: "return None".
update_unknown(signal_id, current_price) ==
    /\ signal_id \notin DOMAIN active_signals
    /\ UNCHANGED vars

\* _load_active_signals_from_db: f"{row[1]}_{row[0]}", the symbol and the
\* row id.  A row id counts from 1 and the int(timestamp) of SignalId is
\* seconds since the epoch, so the two never meet; the clock of the model
\* starts at 1, and the tag keeps them apart here.
LoadedId(symbol, rowid) == <<symbol, "id", rowid>>

\* Loadable without the "row[3] == 0 or row[3] is None" skip.
LoadableAnyEntry(row) == row.status = "active"

\* The rows _load_active_signals_from_db turns into objects: "WHERE status
\* = 'active'" less those it skips for "row[3] == 0 or row[3] is None".
Loadable(row) ==
    /\ row.status = "active"
    /\ ~(row.entry_price = 0 \/ row.entry_price = None)

\* The ROIMetrics built from row number rowid: the definition of the row,
\* everything else at its default.
LoadedMetrics(rowid, row, t) ==
    ROIMetrics(LoadedId(row.symbol, rowid), row,
               IF row.timestamp = None THEN t ELSE row.timestamp)

\* The loop of _load_active_signals_from_db from row number rowid down
\* ("ORDER BY id DESC"): loaded.objects are the objects built so far,
\* loaded.active the active set, and first the number of the first of them.
RECURSIVE LoadRows(_, _, _, _, _)
LoadRows(rows, rowid, loaded, first, t) ==
    IF rowid = 0 THEN loaded
    ELSE IF ~Loadable(rows[rowid])
    THEN LoadRows(rows, rowid - 1, loaded, first, t)
    ELSE LET m == LoadedMetrics(rowid, rows[rowid], t)
             o == first + Len(loaded.objects)
         IN  LoadRows(rows, rowid - 1,
                      [objects |-> Append(loaded.objects, m),
                       active |-> Track(loaded.active, m.signal_id, o)],
                      first, t)

\* _load_active_signals_from_db; when the read fails the exception is logged
\* and nothing is loaded.
_load_active_signals_from_db(rows, active, first, t, load_ok) ==
    IF load_ok
    THEN LoadRows(rows, Len(rows), [objects |-> <<>>, active |-> active], first, t)
    ELSE [objects |-> <<>>, active |-> active]

\* A _monitor_signal(signal_id) task that has not run yet.  pc is the await
\* it is suspended at: "loop" before its first run and in asyncio.sleep(15),
\* "price" in _get_current_price, "notify" in send_alert, "final" in the
\* _update_signal_in_db of _close_signal, "write" in that of line 132;
\* "hung" in an await that never returns, "done" when it has returned.  o,
\* price, level, close and event are the locals of the update_signal_price
\* call it is in: the object `metrics` names, current_price, the branch
\* taken, the status to close with and the event to return.
Task(id) ==
    [signal_id |-> id, done |-> FALSE, pc |-> "loop", o |-> 0, price |-> None,
     level |-> "none", close |-> "", event |-> NoEvent]

\* One "asyncio.create_task(self._monitor_signal(signal_id))" for each id
\* of a set; the order in which the tasks of one call are created is left
\* to CHOOSE.
RECURSIVE TasksFor(_)
TasksFor(ids) ==
    IF ids = {} THEN <<>>
    ELSE LET id == CHOOSE x \in ids : TRUE
         IN  <<Task(id)>> \o TasksFor(ids \ {id})

\* start_monitoring: load the active rows, then one monitor task for every
\* entry of the active set.
start_monitoring(load_ok) ==
    /\ LET loaded == _load_active_signals_from_db(db, active_signals,
                                                   Len(metrics) + 1, now, load_ok)
           fresh == [i \in 1 .. Len(loaded.objects) |-> <<>>]
       IN  /\ metrics' = metrics \o loaded.objects
           /\ active_signals' = loaded.active
           /\ polls' = polls \o fresh
           /\ events' = events \o fresh
           /\ monitors' = monitors \o TasksFor(DOMAIN loaded.active)
    /\ UNCHANGED <<completed_signals, db, now, raised, store_log, save_log, sent,
                   feed_log, stopped, stats>>

\* One turn of the loop of _monitor_signal in task k: the task ends when its
\* id has left the active set; otherwise it asks for the price (None when
\* no source answers) and, given one, calls update_signal_price, whose
\* exceptions it logs; then it sleeps.
_monitor_signal(k, current_price, locked_final, locked) ==
    /\ k \in 1 .. Len(monitors)
    /\ ~monitors[k].done
    /\ IF monitors[k].signal_id \notin DOMAIN active_signals
       THEN /\ monitors' = [monitors EXCEPT ![k].done = TRUE]
            /\ UNCHANGED <<metrics, active_signals, completed_signals, db, now,
                           polls, events, raised, store_log, save_log, sent,
                           feed_log, stopped, stats>>
       ELSE IF current_price = None
       THEN UNCHANGED vars
       ELSE update_signal_price(monitors[k].signal_id, current_price, "sent",
                                locked_final, locked)

\* _close_signal(metrics, status) on an object that is retired already, or
\* whose id has left the active set: the fields are written and the object
\* is appended to the archive before "del self.active_signals[...]", which
\* raises KeyError when the id is not there and otherwise removes whatever
\* entry has that id.
close_signal_retired(o, status, locked_final) ==
    /\ o \in 1 .. Len(metrics)
    /\ \/ metrics[o].status # "active"
       \/ metrics[o].signal_id \notin DOMAIN active_signals
    /\ LET closed == _close_signal(metrics[o], status, now)
       IN  /\ metrics' = [metrics EXCEPT ![o] = closed]
           /\ completed_signals' = Append(completed_signals, o)
           /\ IF closed.signal_id \in DOMAIN active_signals
              THEN /\ active_signals' = Retire(active_signals, closed.signal_id)
                   /\ db' = _update_signal_in_db(db, closed, TRUE, locked_final)
                   /\ raised' = "none"
                   /\ store_log' = <<StoreCall(closed, TRUE, locked_final)>>
              ELSE /\ raised' = "KeyError"
                   /\ store_log' = <<>>
                   /\ UNCHANGED <<active_signals, db>>
    /\ UNCHANGED <<now, polls, events, monitors, save_log, sent, feed_log,
                   stopped, stats>>

\* stop_monitoring: self.active_signals.clear().  Nothing is done to the
\* tasks; stopped notes how many of them there are.
stop_monitoring ==
    /\ active_signals' = <<>>
    /\ stopped' = Len(monitors)
    /\ UNCHANGED <<metrics, completed_signals, db, now, polls, events,
                   monitors, raised, store_log, save_log, sent, feed_log, stats>>

---------------------------------------------------------------------------
\* The statistics.

RECURSIVE Gcd(_, _)
Gcd(a, b) == IF b = 0 THEN a ELSE Gcd(b, a % b)

\* Python's true division n / d of an int by a positive int: the quotient as
\* a fraction in lowest terms.
TrueDiv(n, d) ==
    LET g == Gcd(IF n < 0 THEN -n ELSE n, d)
    IN  [num |-> n \div g, den |-> d \div g]

\* Within with a signal closed at the cutoff itself let in.
WithinOrAt(close_time, cutoff_date) ==
    close_time # None /\ close_time >= cutoff_date

\* The filter of recent_signals: the signal has a close_time and it is later
\* than the cutoff.
Within(close_time, cutoff_date) ==
    close_time # None /\ close_time > cutoff_date

\* get_statistics: what it returns for a window of `days` ticks of the
\* clock.  The dict for an empty window has four keys only.
Statistics(days) ==
    LET cutoff_date == now - days
        recent_signals ==
            SelectSeq(completed_signals,
                      LAMBDA o : Within(metrics[o].close_time, cutoff_date))
        roi == [i \in 1 .. Len(recent_signals) |->
                   metrics[recent_signals[i]].current_roi]
        total == Len(recent_signals)
        wins == Len(SelectSeq(roi, LAMBDA r : r > 0))
        losses == Len(SelectSeq(roi, LAMBDA r : r <= 0))
    IN  IF recent_signals = <<>>
        THEN [total_signals |-> 0, win_rate |-> TrueDiv(0, 1),
              average_roi |-> TrueDiv(0, 1), total_roi |-> 0]
        ELSE [total_signals |-> total, wins |-> wins, losses |-> losses,
              win_rate |-> IF total > 0 THEN TrueDiv(wins * 100, total)
                           ELSE TrueDiv(0, 1),
              average_roi |-> TrueDiv(SumSeq(roi), total),
              total_roi |-> SumSeq(roi), period_days |-> days]

\* get_statistics(days): the call and its result are recorded; the tracker
\* is only read.
get_statistics(days) ==
    /\ stats' = Append(stats, [days |-> days, result |-> Statistics(days)])
    /\ UNCHANGED <<metrics, active_signals, completed_signals, db, now, polls,
                   events, monitors, raised, store_log, save_log, sent,
                   feed_log, stopped>>

---------------------------------------------------------------------------
\* The ROITracker of trading/roi_tracker.py, as a function of what it is
\* given: tr is one signal in that tracker, m its ROIMetrics object, active
\* whether its id is in active_signals, archived how often it is in
\* completed_signals, events what update_signal_price returned for it,
\* writes the _update_signal_in_db calls issued for it (final or not),
\* raised the exception of the last call.

\* class ROIMetrics of trading/roi_tracker.py with its defaults.
trading_ROIMetrics(signal_id, d, entry_time) ==
    [signal_id |-> signal_id, symbol |-> d.symbol, direction |-> d.direction,
     entry_price |-> d.entry_price, stop_loss |-> d.stop_loss,
     tp1 |-> d.tp1, tp2 |-> d.tp2, tp3 |-> d.tp3,
     tp1_hit |-> FALSE, tp2_hit |-> FALSE, tp3_hit |-> FALSE, sl_hit |-> FALSE,
     current_roi |-> 0, status |-> "active",
     entry_time |-> entry_time, close_time |-> None, fills |-> <<>>]

\* register_signal of trading/roi_tracker.py at time t.
trading_register_signal(d, t) ==
    [m |-> trading_ROIMetrics(<<d.symbol, t>>, d, t), active |-> TRUE,
     archived |-> 0, events |-> <<>>, writes |-> <<>>, raised |-> "none"]

\* The cascade of its update_signal_price: the level whose branch is taken.
trading_Threshold(m, current_price) ==
    IF m.direction = "long" THEN
        IF ~m.tp3_hit /\ current_price >= m.tp3 THEN "tp3"
        ELSE IF ~m.tp2_hit /\ current_price >= m.tp2 THEN "tp2"
        ELSE IF ~m.tp1_hit /\ current_price >= m.tp1 THEN "tp1"
        ELSE IF ~m.sl_hit /\ current_price <= m.stop_loss THEN "stop_loss"
        ELSE "none"
    ELSE IF m.direction = "short" THEN
        IF ~m.tp3_hit /\ current_price <= m.tp3 THEN "tp3"
        ELSE IF ~m.tp2_hit /\ current_price <= m.tp2 THEN "tp2"
        ELSE IF ~m.tp1_hit /\ current_price <= m.tp1 THEN "tp1"
        ELSE IF ~m.sl_hit /\ current_price >= m.stop_loss THEN "stop_loss"
        ELSE "none"
    ELSE "none"

\* The flag its branch sets before it calls the handler.
trading_SetHit(m, level) ==
    IF level = "tp3" THEN [m EXCEPT !.tp3_hit = TRUE]
    ELSE IF level = "tp2" THEN [m EXCEPT !.tp2_hit = TRUE]
    ELSE IF level = "tp1" THEN [m EXCEPT !.tp1_hit = TRUE]
    ELSE IF level = "stop_loss" THEN [m EXCEPT !.sl_hit = TRUE]
    ELSE m

\* closed_percent of its _handle_sl_hit and _calculate_current_roi.
trading_closed_percent(m) ==
    SumSeq(<<IF m.tp1_hit THEN tp1_percentage ELSE 0,
             IF m.tp2_hit THEN tp2_percentage ELSE 0,
             IF m.tp3_hit THEN tp3_percentage ELSE 0>>)

\* Its _close_signal, the fields of the object.
trading_close_signal(m, status, t) ==
    LET final_roi == SumSeq([i \in 1 .. Len(m.fills) |-> m.fills[i].weighted_profit])
    IN  [m EXCEPT !.status = status, !.close_time = t, !.current_roi = final_roi]

\* Its _handle_tp_hit on a nonzero entry price: the object with the fill,
\* closed when the level is tp3 or all three flags are set, the event
\* returned and whether it closed.
trading_handle_tp_hit(m, tp_level, price, t) ==
    LET close_percent == IF tp_level = "tp1" THEN tp1_percentage
                         ELSE IF tp_level = "tp2" THEN tp2_percentage
                         ELSE tp3_percentage
        profit_percent == IF m.direction = "long"
                          THEN ((price - m.entry_price) * 100) \div m.entry_price
                          ELSE ((m.entry_price - price) * 100) \div m.entry_price
        weighted_profit == profit_percent * close_percent
        fill == [level |-> tp_level, price |-> price, percentage |-> close_percent,
                 profit_percent |-> profit_percent,
                 weighted_profit |-> weighted_profit, timestamp |-> t]
        filled == [m EXCEPT !.fills = Append(@, fill)]
        closes == tp_level = "tp3" \/ (m.tp1_hit /\ m.tp2_hit /\ m.tp3_hit)
    IN  [m |-> IF closes THEN trading_close_signal(filled, "completed", t)
               ELSE filled,
         closes |-> closes,
         event |-> [type |-> "tp_hit", level |-> tp_level, price |-> price,
                    amount |-> weighted_profit]]

\* Its _handle_sl_hit on a nonzero entry price, in the same shape.
trading_handle_sl_hit(m, price, t) ==
    LET loss_percent == IF m.direction = "long"
                        THEN ((price - m.entry_price) * 100) \div m.entry_price
                        ELSE ((m.entry_price - price) * 100) \div m.entry_price
        remaining_percent == FullPosition - trading_closed_percent(m)
        weighted_loss == loss_percent * remaining_percent
        fill == [level |-> "stop_loss", price |-> price,
                 percentage |-> remaining_percent,
                 profit_percent |-> loss_percent,
                 weighted_profit |-> weighted_loss, timestamp |-> t]
    IN  [m |-> trading_close_signal([m EXCEPT !.fills = Append(@, fill)],
                                    "stopped", t),
         closes |-> TRUE,
         event |-> [type |-> "sl_hit", level |-> "none", price |-> price,
                    amount |-> weighted_loss]]

\* trading_calculate_current_roi that leaves the open part out.
trading_roi_closed_only(m, current_price) ==
    SumSeq([i \in 1 .. Len(m.fills) |-> m.fills[i].weighted_profit])

\* Its _calculate_current_roi on a nonzero entry price.
trading_calculate_current_roi(m, current_price) ==
    LET closed_roi == SumSeq([i \in 1 .. Len(m.fills) |-> m.fills[i].weighted_profit])
        remaining_percent == FullPosition - trading_closed_percent(m)
        unrealized_profit ==
            IF m.direction = "long"
            THEN ((current_price - m.entry_price) * 100) \div m.entry_price
            ELSE ((m.entry_price - current_price) * 100) \div m.entry_price
    IN  IF remaining_percent > 0
        THEN closed_roi + unrealized_profit * remaining_percent
        ELSE closed_roi + 0

\* Whether its update_signal_price divides by a zero entry price: it has no
\* guard, so in the handler of any branch taken, and in
\* _calculate_current_roi when something is open.
trading_ZeroDivision(m, level) ==
    /\ m.entry_price = 0
    /\ level # "none" \/ FullPosition - trading_closed_percent(m) > 0

\* Its update_signal_price(signal_id, current_price) at time t on the
\* signal tr: "return None" when the id is not active; a ZeroDivisionError
\* leaves the flag of the branch set and nothing else done.
trading_update_signal_price(tr, current_price, t) ==
    IF ~tr.active THEN [tr EXCEPT !.writes = <<>>, !.raised = "none"]
    ELSE LET level == trading_Threshold(tr.m, current_price)
             hit == trading_SetHit(tr.m, level)
         IN  IF trading_ZeroDivision(hit, level)
             THEN [tr EXCEPT !.m = hit, !.writes = <<>>,
                             !.raised = "ZeroDivisionError"]
             ELSE LET h == IF level \in TPLevels
                           THEN trading_handle_tp_hit(hit, level, current_price, t)
                           ELSE IF level = "stop_loss"
                           THEN trading_handle_sl_hit(hit, current_price, t)
                           ELSE [m |-> hit, closes |-> FALSE, event |-> NoEvent]
                  IN  [m |-> [h.m EXCEPT !.current_roi =
                                 trading_calculate_current_roi(h.m, current_price)],
                       active |-> ~h.closes,
                       archived |-> tr.archived + (IF h.closes THEN 1 ELSE 0),
                       events |-> IF h.event = NoEvent THEN tr.events
                                  ELSE Append(tr.events,
                                              [level |-> level, event |-> h.event]),
                       writes |-> (IF h.closes THEN <<TRUE>> ELSE <<>>) \o <<FALSE>>,
                       raised |-> "none"]

\* The signal after update_signal_price was called with each of the prices
\* in turn, all at time t.
RECURSIVE trading_run(_, _, _)
trading_run(tr, prices, t) ==
    IF prices = <<>> THEN tr
    ELSE trading_run(trading_update_signal_price(tr, Head(prices), t),
                     Tail(prices), t)

---------------------------------------------------------------------------
\* The price feed.

\* What bot.binance_connector.get_ticker does: "absent" when the bot has no
\* such connector, "error" when the call or the float() of its price
\* raises, "empty" for None or an empty dict, "no_price" for a dict without
\* the key "price", "ticker" for one with it, "hang" when the call never
\* returns.
BinanceAnswer(kind, price) == [kind |-> kind, price |-> price]

\* The same of bot.bybit_connector.get_ticker, whose dict has "lastPrice"
\* or "last_price"; 0 stands for a key that is missing.
BybitAnswer(kind, lastPrice, last_price) ==
    [kind |-> kind, lastPrice |-> lastPrice, last_price |-> last_price]

\* Lines 566-575: the price the Binance branch returns, None when it falls
\* through.
BinancePrice(binance) ==
    IF binance.kind = "ticker" /\ binance.price > 0 THEN binance.price ELSE None

\* Lines 577-588: the same of the Bybit branch, on
\* ticker.get("lastPrice", 0) or ticker.get("last_price", 0).
BybitPrice(bybit) ==
    LET price == IF bybit.lastPrice # 0 THEN bybit.lastPrice ELSE bybit.last_price
    IN  IF bybit.kind = "ticker" /\ price > 0 THEN price ELSE None

\* _get_current_price with Bybit asked before Binance.
GetPriceBybitFirst(bot, binance, bybit) ==
    IF ~bot THEN [returns |-> TRUE, price |-> None, asked |-> <<>>]
    ELSE LET first == IF bybit.kind = "absent" THEN <<>> ELSE <<"bybit">>
         IN  IF bybit.kind = "hang"
             THEN [returns |-> FALSE, price |-> None, asked |-> first]
             ELSE IF BybitPrice(bybit) # None
             THEN [returns |-> TRUE, price |-> BybitPrice(bybit), asked |-> first]
             ELSE LET asked == first \o (IF binance.kind = "absent" THEN <<>>
                                         ELSE <<"binance">>)
                  IN  IF binance.kind = "hang"
                      THEN [returns |-> FALSE, price |-> None, asked |-> asked]
                      ELSE [returns |-> TRUE, price |-> BinancePrice(binance),
                            asked |-> asked]

\* _get_current_price(symbol): whether it returns, what it returns and the
\* connectors it asked, in order.  Every exception is caught inside, so
\* there is no outcome in which it raises.
_get_current_price(bot, binance, bybit) ==
    IF ~bot THEN [returns |-> TRUE, price |-> None, asked |-> <<>>]
    ELSE LET first == IF binance.kind = "absent" THEN <<>> ELSE <<"binance">>
         IN  IF binance.kind = "hang"
             THEN [returns |-> FALSE, price |-> None, asked |-> first]
             ELSE IF BinancePrice(binance) # None
             THEN [returns |-> TRUE, price |-> BinancePrice(binance), asked |-> first]
             ELSE LET asked == first \o (IF bybit.kind = "absent" THEN <<>>
                                         ELSE <<"bybit">>)
                  IN  IF bybit.kind = "hang"
                      THEN [returns |-> FALSE, price |-> None, asked |-> asked]
                      ELSE [returns |-> TRUE, price |-> BybitPrice(bybit),
                            asked |-> asked]

\* The record feed_log keeps of one _get_current_price call of task k.
FeedCall(k, bot, binance, bybit) ==
    [task |-> k, bot |-> bot, binance |-> binance, bybit |-> bybit,
     result |-> _get_current_price(bot, binance, bybit)]

---------------------------------------------------------------------------
\* The monitor tasks, from one await to the next.

\* Task record t suspended at pc inside update_signal_price.
Suspended(t, pc, o, price, level, close, event) ==
    [t EXCEPT !.pc = pc, !.o = o, !.price = price, !.level = level,
              !.close = close, !.event = event]

\* Task record t back in asyncio.sleep(15), update_signal_price left.
Asleep(t) ==
    [t EXCEPT !.pc = "loop", !.o = 0, !.price = None, !.level = "none",
              !.close = "", !.event = NoEvent]

\* Task k from the end of the notification of its handler to its next
\* await: _close_signal when the handler closes (status, close_time,
\* current_roi, the archive, the del, which raises KeyError when the id has
\* left the active set, and then the final write, pending), otherwise line
\* 131 and the write of line 132, pending.  A KeyError goes up to
\* _monitor_signal, which logs it and sleeps.
AfterNotification(k, o, m, price, level, close, event) ==
    IF close = ""
    THEN /\ metrics' = [metrics EXCEPT
                           ![o] = [m EXCEPT !.current_roi =
                                       _calculate_current_roi(m, price)]]
         /\ monitors' = [monitors EXCEPT
                            ![k] = Suspended(@, "write", o, price, level, close, event)]
         /\ raised' = "none"
         /\ UNCHANGED <<active_signals, completed_signals>>
    ELSE /\ metrics' = [metrics EXCEPT ![o] = _close_signal(m, close, now)]
         /\ completed_signals' = Append(completed_signals, o)
         /\ IF m.signal_id \in DOMAIN active_signals
            THEN /\ active_signals' = Retire(active_signals, m.signal_id)
                 /\ monitors' = [monitors EXCEPT
                                    ![k] = Suspended(@, "final", o, price, level,
                                                     close, event)]
                 /\ raised' = "none"
            ELSE /\ monitors' = [monitors EXCEPT ![k] = Asleep(@)]
                 /\ raised' = "KeyError"
                 /\ UNCHANGED active_signals

\* Usable that takes whatever the feed returned for a price.
UsableAlways(current_price) == TRUE

\* "if current_price:" of _monitor_signal.
Usable(current_price) == current_price # None /\ current_price # 0

\* Task k wakes, or runs for the first time: "while signal_id in
\* self.active_signals"; the task returns when the id is not there,
\* otherwise it calls _get_current_price.
monitor_loop(k) ==
    /\ k \in 1 .. Len(monitors)
    /\ monitors[k].pc = "loop"
    /\ monitors' =
          IF monitors[k].signal_id \in DOMAIN active_signals
          THEN [monitors EXCEPT ![k].pc = "price"]
          ELSE [monitors EXCEPT ![k].pc = "done", ![k].done = TRUE]
    /\ UNCHANGED <<metrics, active_signals, completed_signals, db, now, polls,
                   events, raised, store_log, save_log, sent, feed_log, stopped,
                   stats>>

\* The _get_current_price call of task k is over: it never returns (the
\* task stays in it), or it returns None (the task sleeps), or a price, and
\* update_signal_price runs to its first await: "return None" for an id
\* that has left the active set; otherwise the cascade and the handler of
\* the branch taken, up to send_alert when there is a handler (telegram)
\* and a hit to tell of, and past the notification when not.
monitor_price(k, bot, binance, bybit, telegram) ==
    /\ k \in 1 .. Len(monitors)
    /\ monitors[k].pc = "price"
    /\ feed_log' = <<FeedCall(k, bot, binance, bybit)>>
    /\ LET feed == _get_current_price(bot, binance, bybit)
           signal_id == monitors[k].signal_id
       IN  IF ~feed.returns
           THEN /\ monitors' = [monitors EXCEPT ![k].pc = "hung"]
                /\ UNCHANGED <<metrics, active_signals, completed_signals, polls,
                               raised, store_log, sent>>
           ELSE IF ~Usable(feed.price) \/ signal_id \notin DOMAIN active_signals
           THEN /\ monitors' = [monitors EXCEPT ![k] = Asleep(@)]
                /\ UNCHANGED <<metrics, active_signals, completed_signals, polls,
                               raised, store_log, sent>>
           ELSE LET o == active_signals[signal_id]
                    level == Threshold(metrics[o], feed.price)
                    hit == SetHit(metrics[o], level)
                    h == IF level \in TPLevels
                         THEN _handle_tp_hit(hit, level, feed.price, now)
                         ELSE IF level = "stop_loss"
                         THEN _handle_sl_hit(hit, feed.price, now)
                         ELSE [m |-> hit, event |-> NoEvent, close |-> ""]
                IN  /\ polls' = [polls EXCEPT ![o] = Append(@, feed.price)]
                    /\ store_log' = <<>>
                    /\ sent' = <<>>
                    /\ IF ZeroDivision(hit, level)
                       THEN /\ metrics' = [metrics EXCEPT ![o] = hit]
                            /\ monitors' = [monitors EXCEPT ![k] = Asleep(@)]
                            /\ raised' = "ZeroDivisionError"
                            /\ UNCHANGED <<active_signals, completed_signals>>
                       ELSE IF Notifies(h.event) /\ telegram
                       THEN /\ metrics' = [metrics EXCEPT ![o] = h.m]
                            /\ monitors' = [monitors EXCEPT
                                  ![k] = Suspended(@, "notify", o, feed.price,
                                                   level, h.close, h.event)]
                            /\ raised' = "none"
                            /\ UNCHANGED <<active_signals, completed_signals>>
                       ELSE AfterNotification(k, o, h.m, feed.price, level,
                                              h.close, h.event)
    /\ UNCHANGED <<db, now, events, save_log, stopped, stats>>

\* NotificationRaises without the try of the two notification functions.
NotificationRaisesUncaught(outcome) == outcome = "error"

\* Whether a notification whose send_alert did this raises into the handler
\* that awaits it: never, "except Exception" logs whatever it raised.
NotificationRaises(outcome) == FALSE

\* The send_alert call of task k is over: it returned ("sent") or raised
\* ("error", logged and swallowed); the handler goes on, a target's with
\* its test for a close on the flags as they are now.
monitor_notified(k, outcome) ==
    /\ k \in 1 .. Len(monitors)
    /\ monitors[k].pc = "notify"
    /\ LET t == monitors[k]
           close == IF t.level \in TPLevels
                    THEN ClosesAfterTp(metrics[t.o], t.level)
                    ELSE t.close
       IN  /\ sent' = _send_notification(metrics[t.o], t.level, outcome)
           /\ IF NotificationRaises(outcome)
              THEN /\ monitors' = [monitors EXCEPT ![k] = Asleep(@)]
                   /\ raised' = "NotificationError"
                   /\ UNCHANGED <<metrics, active_signals, completed_signals>>
              ELSE AfterNotification(k, t.o, metrics[t.o], t.price, t.level,
                                     close, t.event)
    /\ UNCHANGED <<db, now, polls, events, store_log, save_log, feed_log,
                   stopped, stats>>

\* The final write of the _close_signal of task k is over, after `locked`
\* refused attempts; the handler returns its event, and update_signal_price
\* goes on with line 131 to the write of line 132.
monitor_final_written(k, locked) ==
    /\ k \in 1 .. Len(monitors)
    /\ monitors[k].pc = "final"
    /\ LET t == monitors[k]
           m == metrics[t.o]
       IN  /\ db' = _update_signal_in_db(db, m, TRUE, locked)
           /\ store_log' = <<StoreCall(m, TRUE, locked)>>
           /\ metrics' = [metrics EXCEPT
                             ![t.o].current_roi = _calculate_current_roi(m, t.price)]
           /\ monitors' = [monitors EXCEPT ![k].pc = "write"]
    /\ UNCHANGED <<active_signals, completed_signals, now, polls, events, raised,
                   save_log, sent, feed_log, stopped, stats>>

\* The write of line 132 of task k is over; update_signal_price returns its
\* event and the task sleeps.
monitor_written(k, locked) ==
    /\ k \in 1 .. Len(monitors)
    /\ monitors[k].pc = "write"
    /\ LET t == monitors[k]
           m == metrics[t.o]
       IN  /\ db' = _update_signal_in_db(db, m, FALSE, locked)
           /\ store_log' = store_log \o <<StoreCall(m, FALSE, locked)>>
           /\ events' = IF t.event = NoEvent THEN events
                        ELSE [events EXCEPT
                                 ![t.o] = Append(@, [level |-> t.level,
                                                     event |-> t.event])]
           /\ monitors' = [monitors EXCEPT ![k] = Asleep(@)]
    /\ UNCHANGED <<metrics, active_signals, completed_signals, now, polls, raised,
                   save_log, sent, feed_log, stopped, stats>>

\* The ids a caller can name: every id handed out so far.
KnownIds == {metrics[o].signal_id : o \in 1 .. Len(metrics)}

\* Whether the model lets signal_id be polled once more.
MayPoll(signal_id) ==
    signal_id \in DOMAIN active_signals
        => Len(polls[active_signals[signal_id]]) < MaxPolls

Next ==
    \/ (now < MaxTime /\ Tick)
    \/ (Len(metrics) < MaxSignals
           /\ \E d \in Definitions, locked \in SaveContention :
                 register_signal(d, locked))
    \/ \E id \in KnownIds, p \in Prices, lf \in Contention, l \in Contention :
          MayPoll(id) /\ update_signal_price(id, p, "sent", lf, l)
    \/ \E id \in KnownIds, p \in Prices : update_unknown(id, p)
    \/ stop_monitoring

Spec == Init /\ [][Next]_vars

\* Whether the registry specification lets task k poll once more.
MayMonitor(k) ==
    monitors[k].signal_id \in DOMAIN active_signals
        => Len(polls[active_signals[monitors[k].signal_id]]) < MaxRegistryPolls

\* The registry with its monitor tasks: signals are registered, loaded from
\* the store and polled by the tasks start_monitoring creates.
NextRegistry ==
    \/ (now < MaxTime /\ Tick)
    \/ (Len(metrics) < MaxRegistered
           /\ \E d \in Definitions, locked \in SaveContention :
                 register_signal(d, locked))
    \/ (Len(monitors) < MaxMonitors
           /\ \E load_ok \in BOOLEAN : start_monitoring(load_ok))
    \/ \E k \in 1 .. Len(monitors), p \in RegistryPrices \cup {None} :
          MayMonitor(k) /\ _monitor_signal(k, p, 0, 0)
    \/ stop_monitoring

SpecRegistry == Init /\ [][NextRegistry]_vars

\* Whether the retirement specification lets signal_id be polled once more.
MayPollRetire(signal_id) ==
    signal_id \in DOMAIN active_signals
        => Len(polls[active_signals[signal_id]]) < MaxRegistryPolls

\* Retirement: besides the calls of update_signal_price, _close_signal is
\* called once more on signals that were retired.
NextRetire ==
    \/ (now < MaxTime /\ Tick)
    \/ (Len(metrics) < MaxRegistered
           /\ \E d \in Definitions, locked \in SaveContention :
                 register_signal(d, locked))
    \/ \E id \in KnownIds, p \in RegistryPrices :
          MayPollRetire(id) /\ update_signal_price(id, p, "sent", 0, 0)
    \/ (Len(completed_signals) < MaxArchive
           /\ \E o \in 1 .. Len(metrics), status \in {"completed", "stopped"} :
                 close_signal_retired(o, status, 0))
    \/ stop_monitoring

SpecRetire == Init /\ [][NextRetire]_vars

\* Whether the store specification lets signal_id be polled once more.
MayPollStore(signal_id) ==
    signal_id \in DOMAIN active_signals
        => Len(polls[active_signals[signal_id]]) < MaxStorePolls

\* The store under contention: every write of update_signal_price meets any
\* number of locked attempts.
NextStore ==
    \/ (Len(metrics) < MaxSignals
           /\ \E d \in Definitions, locked \in SaveContention :
                 register_signal(d, locked))
    \/ \E id \in KnownIds, p \in StorePrices,
          lf \in StoreContention, l \in StoreContention :
          MayPollStore(id) /\ update_signal_price(id, p, "sent", lf, l)

SpecStore == Init /\ [][NextStore]_vars

\* The windows asked of get_statistics, in ticks of the clock.
StatDays == {0, 1, 2}

\* Whether the statistics specification lets signal_id be polled once more.
MayPollStat(signal_id) ==
    signal_id \in DOMAIN active_signals
        => Len(polls[active_signals[signal_id]]) < MaxStatPolls

\* The statistics: signals are registered and polled until they close, at
\* different times, and get_statistics is called over the archive.
NextStatistics ==
    \/ (now < MaxTime /\ Tick)
    \/ (Len(metrics) < MaxStatSignals
           /\ \E d \in Definitions : register_signal(d, 0))
    \/ \E id \in KnownIds, p \in RegistryPrices :
          MayPollStat(id) /\ update_signal_price(id, p, "sent", 0, 0)
    \/ (Len(stats) < MaxStatCalls
           /\ \E days \in StatDays : get_statistics(days))

SpecStatistics == Init /\ [][NextStatistics]_vars

\* Whether task k may be handed this price with `most` polls to an object:
\* a price only while the object polled has polls left.
MayPrice(k, price, most) ==
    LET signal_id == monitors[k].signal_id
    IN  (price # None /\ signal_id \in DOMAIN active_signals)
            => Len(polls[active_signals[signal_id]]) < most

\* Whether start_monitoring may run with `tasks` tasks and `objects` objects
\* at most: those it creates fit.
MayStart(load_ok, tasks, objects) ==
    LET loaded == _load_active_signals_from_db(db, active_signals,
                                                Len(metrics) + 1, now, load_ok)
    IN  /\ Len(monitors) + Cardinality(DOMAIN loaded.active) <= tasks
        /\ Len(metrics) + Len(loaded.objects) <= objects

\* The prices a poll can yield in the recovery specification: the stop,
\* the first and the second target of a LONG signal.
RecoveryPrices == {98, 101, 102}

\* Whether the recovery specification lets signal_id be polled once more.
MayPollRecovery(signal_id) ==
    signal_id \in DOMAIN active_signals
        => Len(polls[active_signals[signal_id]]) < MaxRecoveryPolls

\* Recovery: a signal is registered and polled, its rows are read back by
\* the load of start_monitoring, and what was read back is polled too.
NextRecovery ==
    \/ (Len(metrics) < MaxRecoverySignals
           /\ \E d \in Definitions, locked \in SaveContention :
                 register_signal(d, locked))
    \/ \E id \in KnownIds, p \in RecoveryPrices :
          MayPollRecovery(id) /\ update_signal_price(id, p, "sent", 0, 0)
    \/ \E load_ok \in BOOLEAN :
          /\ MayStart(load_ok, MaxRecoveryTasks, MaxRecoveryObjects)
          /\ start_monitoring(load_ok)

SpecRecovery == Init /\ [][NextRecovery]_vars

\* What the connectors answer in the feed specification: every kind of
\* answer, with prices that are negative, zero, and targets of a LONG
\* signal.
FeedBinance ==
    {BinanceAnswer(kind, 0) : kind \in {"absent", "error", "empty", "no_price", "hang"}}
        \cup {BinanceAnswer("ticker", price) : price \in {-1, 0, 101, 103}}
FeedBybit ==
    {BybitAnswer(kind, 0, 0) : kind \in {"absent", "error", "empty", "hang"}}
        \cup {BybitAnswer("ticker", lastPrice, last_price) :
                  lastPrice \in {-1, 0, 102}, last_price \in {0, 102}}

\* The price feed: one signal and its task, with every answer of the
\* connectors, a tracker with and without a bot, and no notification
\* handler.
NextFeed ==
    \/ (Len(metrics) < MaxSignals
           /\ \E d \in Definitions, locked \in SaveContention :
                 register_signal(d, locked))
    \/ \E load_ok \in BOOLEAN :
          MayStart(load_ok, MaxMonitors, MaxSignals) /\ start_monitoring(load_ok)
    \/ \E k \in 1 .. Len(monitors) : monitor_loop(k)
    \/ \E k \in 1 .. Len(monitors), bot \in BOOLEAN,
          binance \in FeedBinance, bybit \in FeedBybit :
          /\ MayPrice(k, _get_current_price(bot, binance, bybit).price, MaxFeedPolls)
          /\ monitor_price(k, bot, binance, bybit, FALSE)
    \/ \E k \in 1 .. Len(monitors) : monitor_final_written(k, 0)
    \/ \E k \in 1 .. Len(monitors) : monitor_written(k, 0)

SpecFeed == Init /\ [][NextFeed]_vars

\* What the connectors answer in the task specification: Binance raises,
\* yields a price that reaches the last target or the stop of a LONG signal,
\* or never returns; the bot has no Bybit connector.
TaskBinance ==
    {BinanceAnswer("error", 0), BinanceAnswer("ticker", 103),
     BinanceAnswer("ticker", 98), BinanceAnswer("hang", 0)}
NoBybit == BybitAnswer("absent", 0, 0)

\* The steps of task k.
TaskStep(k) ==
    \/ monitor_loop(k)
    \/ \E binance \in TaskBinance, telegram \in BOOLEAN :
          /\ k \in 1 .. Len(monitors)
          /\ MayPrice(k, BinancePrice(binance), MaxTaskPolls)
          /\ monitor_price(k, TRUE, binance, NoBybit, telegram)
    \/ \E outcome \in {"sent", "error"} : monitor_notified(k, outcome)
    \/ \E locked \in Contention : monitor_final_written(k, locked)
    \/ \E locked \in Contention : monitor_written(k, locked)

\* The tasks at the level of their awaits: the event loop runs one task
\* from one await to the next, and register_signal, start_monitoring and
\* stop_monitoring come in between.
NextTasks ==
    \/ (Len(metrics) < MaxTaskSignals
           /\ \E d \in Definitions, locked \in SaveContention :
                 register_signal(d, locked))
    \/ \E load_ok \in BOOLEAN :
          MayStart(load_ok, MaxTasks, MaxTaskObjects) /\ start_monitoring(load_ok)
    \/ \E k \in 1 .. MaxTasks : TaskStep(k)
    \/ stop_monitoring

SpecTasks == Init /\ [][NextTasks]_vars

\* The same with the scheduling of the event loop: a task that can run is
\* run.
SpecTasksFair == SpecTasks /\ \A k \in 1 .. MaxTasks : WF_vars(TaskStep(k))

\* Whether the twin specification lets signal_id be polled once more.
MayPollTwin(signal_id) ==
    signal_id \in DOMAIN active_signals
        => Len(polls[active_signals[signal_id]]) < MaxTwinPolls

\* The calls the two trackers are compared on: register_signal and
\* update_signal_price with every price; the clock stands still, so that
\* both read the same time.
NextTwin ==
    \/ (Len(metrics) < MaxTwinSignals
           /\ \E d \in Definitions, locked \in SaveContention :
                 register_signal(d, locked))
    \/ \E id \in KnownIds, p \in Prices :
          MayPollTwin(id) /\ update_signal_price(id, p, "sent", 0, 0)
    \/ \E id \in KnownIds, p \in Prices : update_unknown(id, p)

SpecTwin == Init /\ [][NextTwin]_vars

\* What Binance answers in the overlap specification: a price at the
\* stop, the first target or the last target of a LONG signal.
OverlapBinance ==
    {BinanceAnswer("ticker", 98), BinanceAnswer("ticker", 101),
     BinanceAnswer("ticker", 103)}

\* The steps of task k in the overlap specification.
OverlapStep(k) ==
    \/ monitor_loop(k)
    \/ \E binance \in OverlapBinance, telegram \in BOOLEAN :
          /\ k \in 1 .. Len(monitors)
          /\ MayPrice(k, BinancePrice(binance), MaxOverlapPolls)
          /\ monitor_price(k, TRUE, binance, NoBybit, telegram)
    \/ \E outcome \in {"sent", "error"} : monitor_notified(k, outcome)
    \/ monitor_final_written(k, 0)
    \/ monitor_written(k, 0)

\* Overlapping calls: start_monitoring is called more than once on a signal
\* that was registered, so that two tasks poll one object and the
\* update_signal_price call of one runs while that of the other is
\* suspended.
NextOverlap ==
    \/ (Len(metrics) < MaxOverlapSignals
           /\ \E d \in Definitions, locked \in SaveContention :
                 register_signal(d, locked))
    \/ \E load_ok \in BOOLEAN :
          /\ MayStart(load_ok, MaxOverlapTasks, MaxOverlapObjects)
          /\ start_monitoring(load_ok)
    \/ \E k \in 1 .. MaxOverlapTasks : OverlapStep(k)
    \/ stop_monitoring

SpecOverlap == Init /\ [][NextOverlap]_vars

\* The same with the scheduling of the event loop.
SpecOverlapFair ==
    SpecOverlap /\ \A k \in 1 .. MaxOverlapTasks : WF_vars(OverlapStep(k))

---------------------------------------------------------------------------
\* What the properties below speak of.

Objects == 1 .. Len(metrics)

AllLevels == {"tp1", "tp2", "tp3", "stop_loss"}

Last(s) == s[Len(s)]

\* How often a level occurs in a sequence of records with a level field.
Occurrences(s, level) == Cardinality({i \in 1 .. Len(s) : s[i].level = level})

\* The levels of a sequence of records, in order.
LevelsOf(s) == [i \in 1 .. Len(s) |-> s[i].level]

HitFlag(m, level) ==
    CASE level = "tp1" -> m.tp1_hit
      [] level = "tp2" -> m.tp2_hit
      [] level = "tp3" -> m.tp3_hit
      [] level = "stop_loss" -> m.sl_hit

\* The data model's ordering of a LONG signal, with positive prices.
OrderedLong(m) ==
    /\ m.direction = "long"
    /\ 0 < m.stop_loss /\ m.stop_loss < m.entry_price
    /\ m.entry_price < m.tp1 /\ m.tp1 < m.tp2 /\ m.tp2 < m.tp3

NonDecreasing(s) == \A i \in 1 .. Len(s) - 1 : s[i] <= s[i + 1]
Increasing(s) == \A i \in 1 .. Len(s) - 1 : s[i] < s[i + 1]

---------------------------------------------------------------------------
\* C1: on one signal, each level (tp1, tp2, tp3, stop_loss) returns at most
\* one event and appends at most one fill, and a hit flag that is true is
\* never reset; a price that already triggered TP1 does not fire TP1 again.
C1_ExactlyOnce ==
    /\ [](\A o \in Objects : \A level \in AllLevels :
            /\ Occurrences(events[o], level) <= 1
            /\ Occurrences(metrics[o].fills, level) <= 1)
    /\ [][\A o \in Objects : \A level \in AllLevels :
            HitFlag(metrics[o], level) => HitFlag(metrics'[o], level)]_vars

\* TP1 has fired once and its price was polled again.
C1_Witness ==
    \E o \in Objects :
        /\ Occurrences(events[o], "tp1") = 1
        /\ \E i, j \in 1 .. Len(polls[o]) :
              i < j /\ polls[o][i] = metrics[o].tp1 /\ polls[o][j] = metrics[o].tp1

\* The cascade as the claim states it: the first of the four conditions,
\* in the order TP3, TP2, TP1, STOP, that holds.
ClaimedLevel(m, price) ==
    LET long == m.direction = "long"
        target(x) == IF long THEN price >= x ELSE price <= x
        stop == IF long THEN price <= m.stop_loss ELSE price >= m.stop_loss
        order == << [level |-> "tp3", holds |-> ~m.tp3_hit /\ target(m.tp3)],
                    [level |-> "tp2", holds |-> ~m.tp2_hit /\ target(m.tp2)],
                    [level |-> "tp1", holds |-> ~m.tp1_hit /\ target(m.tp1)],
                    [level |-> "stop_loss", holds |-> ~m.sl_hit /\ stop] >>
        first == {i \in 1 .. 4 : order[i].holds /\ \A j \in 1 .. i - 1 : ~order[j].holds}
    IN  IF first = {} THEN "none" ELSE order[CHOOSE i \in first : TRUE].level

\* C2: one update_signal_price call returns the event of the first
\* condition, in the order TP3, TP2, TP1, STOP, that holds of the signal
\* and the price (targets >= and stop <= for LONG, reversed for SHORT),
\* returns no event when none holds, and appends at most one fill.
C2_Cascade ==
    [][\A o \in Objects :
          polls'[o] # polls[o] =>
            LET price == Last(polls'[o])
                level == ClaimedLevel(metrics[o], price)
                fills == metrics[o].fills
                fills2 == metrics'[o].fills
            IN  IF level = "none"
                THEN events'[o] = events[o] /\ fills2 = fills
                ELSE /\ Len(events'[o]) = Len(events[o]) + 1
                     /\ Last(events'[o]).level = level
                     /\ HitFlag(metrics'[o], level)
                     /\ Len(fills2) <= Len(fills) + 1
                     /\ metrics[o].entry_price # 0 =>
                           /\ Last(events'[o]).event.level =
                                 (IF level = "stop_loss" THEN "none" ELSE level)
                           /\ Last(events'[o]).event.price = price
                           /\ Last(events'[o]).event.type =
                                 (IF level = "stop_loss" THEN "sl_hit" ELSE "tp_hit")
                           /\ Len(fills2) = Len(fills) + 1
                           /\ Last(fills2).level = level
                           /\ Last(fills2).price = price]_vars

\* One poll met the conditions of TP1, TP2 and TP3 together, and only TP3
\* fired.
C2_Witness ==
    \E o \in Objects :
        /\ metrics[o].direction = "short" /\ metrics[o].entry_price # 0
        /\ Len(polls[o]) = 1 /\ polls[o][1] <= metrics[o].tp3
        /\ LevelsOf(events[o]) = <<"tp3">>
        /\ LevelsOf(metrics[o].fills) = <<"tp3">>

\* The paths C3 speaks of: the polled prices of an ordered LONG signal that
\* start below tp1 and have reached tp3.
ReachedTp3(o) ==
    /\ OrderedLong(metrics[o])
    /\ polls[o] # <<>>
    /\ polls[o][1] < metrics[o].tp1
    /\ Last(polls[o]) >= metrics[o].tp3

\* Some polled price lies in [lo, hi).
PolledWithin(o, lo, hi) ==
    \E i \in 1 .. Len(polls[o]) : lo <= polls[o][i] /\ polls[o][i] < hi

\* C3 as stated: on every increasing path from below tp1 to tp3 the events
\* are exactly TP1, TP2, TP3, in that order.
C3_AsStated ==
    \A o \in Objects :
        ReachedTp3(o) /\ Increasing(polls[o]) =>
            LevelsOf(events[o]) = <<"tp1", "tp2", "tp3">>

\* C3, amended: on every non-decreasing path of an ordered LONG signal from
\* below tp1 to tp3, TP3 fires exactly once, as the last event, and closes
\* the signal, TP1 and TP2 fire at most once each and STOP never fires; the
\* events are exactly TP1, TP2, TP3, in that order, when no poll passes over
\* a level, that is when some polled price lies in [tp1, tp2) and some in
\* [tp2, tp3).
C3_MonotonePath ==
    \A o \in Objects :
        ReachedTp3(o) /\ NonDecreasing(polls[o]) =>
            /\ Occurrences(events[o], "tp3") = 1
            /\ Last(events[o]).level = "tp3"
            /\ Last(events[o]).event.type = "tp_hit"
            /\ metrics[o].status = "completed"
            /\ Occurrences(events[o], "tp1") <= 1
            /\ Occurrences(events[o], "tp2") <= 1
            /\ Occurrences(events[o], "stop_loss") = 0
            /\ (/\ PolledWithin(o, metrics[o].tp1, metrics[o].tp2)
                /\ PolledWithin(o, metrics[o].tp2, metrics[o].tp3))
               => LevelsOf(events[o]) = <<"tp1", "tp2", "tp3">>

\* A path that rises level by level and has fired TP1, TP2, TP3.
C3_Witness ==
    \E o \in Objects :
        /\ ReachedTp3(o) /\ Increasing(polls[o])
        /\ LevelsOf(events[o]) = <<"tp1", "tp2", "tp3">>
        /\ LevelsOf(metrics[o].fills) = <<"tp1", "tp2", "tp3">>

\* The polls of object o reached the stop before any target: some polled
\* price is at or below stop_loss and no earlier one reached tp1.
StopFirst(o) ==
    \E i \in 1 .. Len(polls[o]) :
        /\ polls[o][i] <= metrics[o].stop_loss
        /\ \A j \in 1 .. i - 1 : polls[o][j] < metrics[o].tp1

FillsRoi(m) == SumSeq([i \in 1 .. Len(m.fills) |-> m.fills[i].weighted_profit])

\* The sum of the position fractions of the fills of a signal.
FillsFraction(m) == SumSeq([i \in 1 .. Len(m.fills) |-> m.fills[i].percentage])

\* The configured allocation of a TP level, in hundredths.
ClaimedAllocation(level) ==
    CASE level = "tp1" -> 25 [] level = "tp2" -> 50 [] level = "tp3" -> 25

\* 1 minus the allocations of the TP levels flagged hit, in hundredths.
OpenFraction(m) ==
    100 - SumSeq([i \in 1 .. 3 |->
                    LET level == <<"tp1", "tp2", "tp3">>[i]
                    IN  IF HitFlag(m, level) THEN ClaimedAllocation(level) ELSE 0])

\* The direction-aware percent return of a price against the entry price.
ClaimedReturn(m, price) ==
    IF m.direction = "long"
    THEN ((price - m.entry_price) * 100) \div m.entry_price
    ELSE ((m.entry_price - price) * 100) \div m.entry_price

\* C6: a signal closed by update_signal_price has as current_roi the sum of
\* the weighted contributions of its fills, with no unrealized part (0.75
\* after TP1 at +1%, TP2 at +2% and STOP at -2% on the remaining 25%).
C6_ClosedRoiIsRealized ==
    \A o \in Objects :
        metrics[o].status # "active" =>
            metrics[o].current_roi = FillsRoi(metrics[o])

\* C7: after an update_signal_price call on a signal with nonzero entry
\* price that remains active, current_roi is the sum of the weighted
\* contributions of the fills plus the return of the polled price weighted
\* with the open fraction, 1 minus the allocations of the TP levels hit.
C7_ActiveRoi ==
    \A o \in Objects :
        (/\ metrics[o].status = "active"
         /\ metrics[o].entry_price # 0
         /\ polls[o] # <<>>) =>
            LET m == metrics[o]
                unrealized == IF OpenFraction(m) = 0 THEN 0
                              ELSE ClaimedReturn(m, Last(polls[o])) * OpenFraction(m)
            IN  m.current_roi = FillsRoi(m) + unrealized

\* An active signal with TP1 and TP2 closed and the last price under water.
C7_Witness ==
    \E o \in Objects :
        /\ metrics[o].status = "active"
        /\ metrics[o].entry_price # 0
        /\ polls[o] # <<>>
        /\ metrics[o].tp1_hit /\ metrics[o].tp2_hit
        /\ OpenFraction(metrics[o]) = 25
        /\ ClaimedReturn(metrics[o], Last(polls[o])) < 0
        /\ metrics[o].current_roi = 125 + ClaimedReturn(metrics[o], Last(polls[o])) * 25

\* What C8 says of every TP fill: the allocation of its level as position
\* fraction, the direction-aware percent return of its price, and their
\* product as weighted contribution.
TpFillsAsClaimed(m) ==
    \A i \in 1 .. Len(m.fills) :
        LET f == m.fills[i]
        IN  f.level \in TPLevels =>
              /\ f.percentage = ClaimedAllocation(f.level)
              /\ f.profit_percent = ClaimedReturn(m, f.price)
              /\ f.weighted_profit = f.profit_percent * f.percentage

\* The fills of C8's example: tp1, tp2, tp3 at +1%, +2%, +3%.
ExampleFills(m) ==
    /\ Len(m.fills) = 3
    /\ \A i \in 1 .. 3 :
          /\ m.fills[i].level = <<"tp1", "tp2", "tp3">>[i]
          /\ m.fills[i].profit_percent = i

\* C8 as stated: every TP fill is as above, and the fills of the example
\* total 2.25.
C8_AsStated ==
    \A o \in Objects :
        /\ TpFillsAsClaimed(metrics[o])
        /\ ExampleFills(metrics[o]) => FillsRoi(metrics[o]) = 225

\* C8, amended: every TP fill records the allocation of its level (tp1
\* 0.25, tp2 0.50, tp3 0.25) as its position fraction, the direction-aware
\* percent return of its price and their product; fills at +1%, +2%, +3% on
\* tp1, tp2, tp3 total 1.0*0.25 + 2.0*0.50 + 3.0*0.25 = 2.00.
C8_TpFill ==
    \A o \in Objects :
        /\ TpFillsAsClaimed(metrics[o])
        /\ ExampleFills(metrics[o]) => FillsRoi(metrics[o]) = 200

\* A SHORT signal filled at +1%, +2%, +3% on tp1, tp2, tp3.
C8_Witness ==
    \E o \in Objects :
        /\ metrics[o].direction = "short"
        /\ ExampleFills(metrics[o])
        /\ FillsRoi(metrics[o]) = 200

\* C9: a STOP fill closes what is left: its position fraction is 1 minus
\* the allocations of the TP levels hit, which are the fractions of the
\* fills before it.
C9_StopClosesRest ==
    \A o \in Objects : \A i \in 1 .. Len(metrics[o].fills) :
        metrics[o].fills[i].level = "stop_loss" =>
            /\ metrics[o].fills[i].percentage = OpenFraction(metrics[o])
            /\ metrics[o].fills[i].percentage =
                  100 - FillsFraction([fills |-> SubSeq(metrics[o].fills, 1, i - 1)])

\* A stop after TP2 alone (TP1 passed over) closes the other half.
C9_Witness ==
    \E o \in Objects :
        /\ LevelsOf(metrics[o].fills) = <<"tp2", "stop_loss">>
        /\ ~metrics[o].tp1_hit
        /\ metrics[o].fills[2].percentage = 50

\* C10: for every signal (here: with nonzero entry price) the position
\* fractions of the fills plus the open fraction, 1 minus the allocations of
\* the TP levels flagged hit, make 1.0.
C10_FractionsSumToOne ==
    \A o \in Objects :
        metrics[o].entry_price # 0 =>
            FillsFraction(metrics[o]) + OpenFraction(metrics[o]) = 100

\* Whether object o is an entry of the active set / of the completed archive.
InActive(o) == \E id \in DOMAIN active_signals : active_signals[id] = o
InArchive(o) == \E i \in 1 .. Len(completed_signals) : completed_signals[i] = o

\* C11: a signal on which update_signal_price has set tp3_hit or sl_hit has
\* status completed (tp3_hit) or stopped (sl_hit) and its close_time set, is
\* absent from the active set and present in the completed archive; so no
\* signal with tp3_hit or sl_hit true is in the active set.
C11_TerminalTransition ==
    \A o \in Objects :
        (metrics[o].tp3_hit \/ metrics[o].sl_hit) =>
            /\ metrics[o].tp3_hit => metrics[o].status = "completed"
            /\ metrics[o].sl_hit => metrics[o].status = "stopped"
            /\ metrics[o].close_time # None
            /\ ~InActive(o)
            /\ InArchive(o)

\* The invariants of the data model that registration is to validate:
\* positive prices, ordered stop_loss < entry < tp1 < tp2 < tp3 for LONG and
\* the reverse for SHORT.
ValidDefinition(r) ==
    /\ r.entry_price > 0 /\ r.stop_loss > 0
    /\ r.tp1 > 0 /\ r.tp2 > 0 /\ r.tp3 > 0
    /\ r.direction \in {"long", "short"}
    /\ r.direction = "long" =>
          /\ r.stop_loss < r.entry_price /\ r.entry_price < r.tp1
          /\ r.tp1 < r.tp2 /\ r.tp2 < r.tp3
    /\ r.direction = "short" =>
          /\ r.stop_loss > r.entry_price /\ r.entry_price > r.tp1
          /\ r.tp1 > r.tp2 /\ r.tp2 > r.tp3

\* C12: register_signal rejects a definition that breaks the price ordering
\* or has a zero or negative entry price: no such definition becomes a
\* tracked object, an entry of the active set or a row of the store.
C12_RegisterValidates ==
    /\ \A o \in Objects : ValidDefinition(metrics[o])
    /\ \A i \in 1 .. Len(db) : ValidDefinition(db[i])

\* Whether a monitor task that has not ended exists for the id.
Monitored(id) ==
    \E k \in 1 .. Len(monitors) : monitors[k].signal_id = id /\ ~monitors[k].done

\* C13: every signal register_signal has put into the active set has a
\* monitor task of its own, started by the registration, which polls its
\* price without a further call.
C13_RegistrationStartsMonitor ==
    \A id \in DOMAIN active_signals : Monitored(id)

\* The objects register_signal built: their id is their symbol and the
\* second of their registration.
RegisteredObjects ==
    {o \in Objects : metrics[o].signal_id = <<metrics[o].symbol, metrics[o].entry_time>>}

\* C14: any two register_signal calls return distinct ids, also for one
\* symbol within one clock second, so that no registration replaces the
\* entry of another in the active set.
C14_UniqueIds ==
    \A o1, o2 \in RegisteredObjects :
        o1 # o2 => metrics[o1].signal_id # metrics[o2].signal_id

\* The id under which the record with row id i is loaded.
RecordId(i) == <<db[i].symbol, "id", i>>

\* The records the claim has loaded: status active, entry price neither
\* zero nor null.
StoredActive ==
    {i \in 1 .. Len(db) : /\ db[i].status = "active"
                          /\ db[i].entry_price # 0 /\ db[i].entry_price # None}

\* C16: a start_monitoring step puts into the active set exactly the stored
\* records with status active and a nonzero, non-null entry price (none of
\* them when the read fails), each as a fresh object built from its record;
\* it leaves the other entries alone, loads no record with entry_price = 0
\* and creates no monitor task for one; the tasks it creates are one for
\* each entry of the active set.
C16_LoadSkipsZeroEntry ==
    [][Len(monitors') > Len(monitors) =>
         LET new == (Len(metrics) + 1) .. Len(metrics')
             tasks == (Len(monitors) + 1) .. Len(monitors')
         IN  /\ new # {} =>
                   /\ Cardinality(new) = Cardinality(StoredActive)
                   /\ \A i \in StoredActive : \E o \in new :
                         /\ metrics'[o].signal_id = RecordId(i)
                         /\ active_signals'[RecordId(i)] = o
                         /\ metrics'[o].symbol = db[i].symbol
                         /\ metrics'[o].direction = db[i].direction
                         /\ metrics'[o].entry_price = db[i].entry_price
                         /\ metrics'[o].stop_loss = db[i].stop_loss
                         /\ metrics'[o].tp1 = db[i].tp1
                         /\ metrics'[o].tp2 = db[i].tp2
                         /\ metrics'[o].tp3 = db[i].tp3
                         /\ metrics'[o].status = "active"
             /\ DOMAIN active_signals' =
                   DOMAIN active_signals \cup {metrics'[o].signal_id : o \in new}
             /\ \A id \in DOMAIN active_signals :
                   active_signals'[id] \notin new =>
                       active_signals'[id] = active_signals[id]
             /\ \A i \in 1 .. Len(db) :
                   db[i].entry_price = 0 =>
                       /\ RecordId(i) \notin DOMAIN active_signals'
                       /\ \A k \in tasks : monitors'[k].signal_id # RecordId(i)
             /\ \A id \in DOMAIN active_signals' :
                   Cardinality({k \in tasks : monitors'[k].signal_id = id}) = 1
             /\ \A k \in tasks : monitors'[k].signal_id \in DOMAIN active_signals'
    ]_vars

\* The store holds an active record with entry price zero and one with a
\* nonzero entry price; the second is loaded and has a monitor task, the
\* first is not.
C16_Witness ==
    \E i, j \in 1 .. Len(db) :
        /\ db[i].status = "active" /\ db[i].entry_price = 0
        /\ j \in StoredActive
        /\ RecordId(j) \in DOMAIN active_signals
        /\ Monitored(RecordId(j))
        /\ RecordId(i) \notin DOMAIN active_signals
        /\ ~Monitored(RecordId(i))

\* C17: a signal whose entry price is zero is never monitored: no monitor
\* task polls it, and no threshold is evaluated on it, so that none of its
\* hit flags is ever set.
C17_ZeroEntryNotMonitored ==
    \A o \in Objects :
        metrics[o].entry_price = 0 =>
            /\ ~\E id \in DOMAIN active_signals :
                    active_signals[id] = o /\ Monitored(id)
            /\ polls[o] = <<>>
            /\ \A level \in AllLevels : ~HitFlag(metrics[o], level)

\* C15: _close_signal on a signal that is retired already, or whose id has
\* left the active set, is a no-op: no call raises, no object is in the
\* completed archive twice, and the status and the close_time of a signal
\* that has left status active never change.
C15_RetireIdempotent ==
    /\ [](/\ raised = "none"
          /\ \A o \in Objects :
                Cardinality({i \in 1 .. Len(completed_signals) :
                                completed_signals[i] = o}) <= 1)
    /\ [][\A o \in Objects :
            metrics[o].status # "active" =>
                /\ metrics'[o].status = metrics[o].status
                /\ metrics'[o].close_time = metrics[o].close_time]_vars

\* C18: on a signal with entry_price = 0 no update_signal_price call, at
\* any price and in any state of the hit flags, raises a division error,
\* and its current_roi is the sum of the weighted contributions of its
\* fills, 0 when it has none.
C18_ZeroEntryRoi ==
    /\ raised # "ZeroDivisionError"
    /\ \A o \in Objects :
          metrics[o].entry_price = 0 =>
              /\ metrics[o].current_roi = FillsRoi(metrics[o])
              /\ metrics[o].fills = <<>> => metrics[o].current_roi = 0

\* A zero-entry signal polled until all four hit flags are set, the last
\* call with nothing of the position left open.
C18_Witness ==
    \E o \in Objects :
        /\ metrics[o].entry_price = 0
        /\ Len(polls[o]) = 4
        /\ \A level \in AllLevels : HitFlag(metrics[o], level)
        /\ metrics[o].current_roi = 0
        /\ raised = "none"

\* The rows of the store that belong to object o: _update_signal_in_db
\* finds them by symbol and timestamp.
RowsOf(o) ==
    {i \in 1 .. Len(db) : /\ db[i].symbol = metrics[o].symbol
                          /\ db[i].timestamp = metrics[o].entry_time}

\* C19: an _update_signal_in_db call whose first N attempts, N below 10,
\* meet "database is locked" makes N + 1 attempts, that is N retries,
\* sleeps 0.2 * 2^k seconds (2 * 2^k tenths) before retry k + 1 for k in
\* 0 .. N-1, a strictly increasing delay, and applies the update exactly
\* once: when the call that made it returns, the rows of the signal hold
\* what it wrote.
C19_RetryWithBackoff ==
    /\ [](\A i \in 1 .. Len(store_log) :
            LET call == store_log[i]
            IN  call.locked < 10 =>
                  /\ call.attempts = call.locked + 1
                  /\ Len(call.delays) = call.locked
                  /\ \A k \in 0 .. call.locked - 1 : call.delays[k + 1] = 2 * 2 ^ k
                  /\ \A k \in 1 .. call.locked - 1 : call.delays[k] < call.delays[k + 1]
                  /\ call.applied = 1)
    /\ [][\A o \in Objects :
            polls'[o] # polls[o] =>
              \A i \in 1 .. Len(store_log') :
                  store_log'[i].locked < 10 =>
                      \A r \in RowsOf(o) :
                          IF store_log'[i].final
                          THEN /\ db'[r].status = metrics'[o].status
                               /\ db'[r].close_time = metrics'[o].close_time
                          ELSE /\ db'[r].roi = metrics'[o].current_roi
                               /\ db'[r].tp1_hit = metrics'[o].tp1_hit
                               /\ db'[r].tp2_hit = metrics'[o].tp2_hit
                               /\ db'[r].tp3_hit = metrics'[o].tp3_hit
                               /\ db'[r].sl_hit = metrics'[o].sl_hit]_vars

\* A write that met nine locked attempts and went through on the tenth,
\* after 51.2 s of last delay, and the row shows the hit flag it wrote.
C19_Witness ==
    \E o \in Objects :
        /\ store_log # <<>>
        /\ Last(store_log).signal_id = metrics[o].signal_id
        /\ Last(store_log).locked = 9
        /\ Last(store_log).attempts = 10
        /\ Len(Last(store_log).delays) = 9
        /\ Last(store_log).delays[9] = 512
        /\ Last(store_log).applied = 1
        /\ RowsOf(o) # {}
        /\ metrics[o].tp1_hit
        /\ \A r \in RowsOf(o) : db[r].tp1_hit

\* C20: a non-final _update_signal_in_db call all of whose attempts meet
\* the contention error stops after 10 attempts, applies nothing and raises
\* nothing; the store is as it was, the signal in memory and the two sets
\* are what the call computed whatever the store did, and the next
\* non-final write of a signal that is still active that goes through puts
\* the current ROI and hit flags into its rows.
C20_DroppedUpdate ==
    /\ [](/\ raised = "none"
          /\ \A i \in 1 .. Len(store_log) :
                /\ store_log[i].attempts <= 10
                /\ store_log[i].locked >= 10 =>
                      /\ store_log[i].attempts = 10
                      /\ store_log[i].applied = 0)
    /\ [][\A o \in Objects :
            polls'[o] # polls[o] =>
              LET price == Last(polls'[o])
                  level == ClaimedLevel(metrics[o], price)
                  m2 == metrics'[o]
                  write == Last(store_log')
              IN  /\ ~write.final
                  /\ (write.applied = 0 /\ Len(store_log') = 1) => db' = db
                  /\ level # "none" => HitFlag(m2, level)
                  /\ level = "none" =>
                        /\ m2.fills = metrics[o].fills
                        /\ \A x \in AllLevels : HitFlag(m2, x) = HitFlag(metrics[o], x)
                  /\ m2.status = "active" =>
                        /\ active_signals' = active_signals
                        /\ completed_signals' = completed_signals
                        /\ m2.entry_price # 0 =>
                              m2.current_roi =
                                  FillsRoi(m2) + ClaimedReturn(m2, price) * OpenFraction(m2)
                        /\ write.applied = 1 =>
                              \A r \in RowsOf(o) :
                                  /\ db'[r].roi = m2.current_roi
                                  /\ db'[r].tp1_hit = m2.tp1_hit
                                  /\ db'[r].tp2_hit = m2.tp2_hit
                                  /\ db'[r].tp3_hit = m2.tp3_hit
                                  /\ db'[r].sl_hit = m2.sl_hit]_vars

\* All ten attempts of the write of TP1 met the lock: the signal is active
\* with tp1_hit set in memory and its row still shows the flag unset.
C20_Witness ==
    \E o \in Objects :
        /\ store_log # <<>>
        /\ Last(store_log).signal_id = metrics[o].signal_id
        /\ ~Last(store_log).final
        /\ Last(store_log).locked = 10
        /\ Last(store_log).attempts = 10
        /\ Last(store_log).applied = 0
        /\ metrics[o].status = "active"
        /\ metrics[o].tp1_hit
        /\ metrics[o].current_roi # 0
        /\ RowsOf(o) # {}
        /\ \A r \in RowsOf(o) : ~db[r].tp1_hit /\ db[r].roi = 0

\* C21: under the same sustained contention, one that outlasts both, a final
\* _update_signal_in_db call makes strictly more attempts before it gives
\* up than a non-final call.
C21_FinalRetriedMore ==
    \A i, j \in 1 .. Len(store_log) :
        (/\ store_log[i].final /\ ~store_log[j].final
         /\ store_log[i].locked = store_log[j].locked
         /\ store_log[i].applied = 0 /\ store_log[j].applied = 0)
            => store_log[i].attempts > store_log[j].attempts

\* C22: a register_signal call whose first INSERT attempt is refused as
\* locked and whose later attempt would go through (fewer than 10 refusals
\* in a row) retries and ends with the initial record of the signal in the
\* store.
C22_InsertRetried ==
    [][\A o \in Objects' \ Objects :
          (/\ save_log' # <<>>
           /\ Last(save_log').signal_id = metrics'[o].signal_id
           /\ Last(save_log').locked >= 1
           /\ Last(save_log').locked < max_retries)
              => /\ Last(save_log').attempts > 1
                 /\ Len(db') = Len(db) + 1
                 /\ Last(db').symbol = metrics'[o].symbol
                 /\ Last(db').timestamp = metrics'[o].entry_time
                 /\ Last(db').status = "active"]_vars

\* The tasks there can be in the task specification.
Tasks == 1 .. MaxTasks

\* Where task k is, "none" when there is no such task yet.
TaskPc(k) == IF k \in 1 .. Len(monitors) THEN monitors[k].pc ELSE "none"

\* Task k has just come out of a _get_current_price call that returned no
\* price.
NoPriceTick(k) ==
    /\ k \in 1 .. Len(monitors)
    /\ monitors[k].pc = "price"
    /\ monitors'[k].pc # "price"
    /\ feed_log'[1].task = k
    /\ feed_log'[1].result.returns
    /\ feed_log'[1].result.price = None

\* C23: a tick of a monitor whose _get_current_price call returns None,
\* because no connector yielded a price or one raised, changes no signal
\* (flags, fills, current_roi, status), neither set and no row of the store,
\* issues no write and sends no notification; the task is left sleeping,
\* and when it wakes with its signal still active it asks for the price of
\* the same signal again, which it always does in the end unless it returns
\* because the signal has gone.
C23_NoPriceTickSkipped ==
    /\ [][\A k \in Tasks :
            NoPriceTick(k) =>
                /\ UNCHANGED <<metrics, active_signals, completed_signals, db,
                               polls, events, store_log, sent, raised>>
                /\ monitors'[k] = Asleep(monitors[k])
                /\ monitors'[k].signal_id = monitors[k].signal_id
                /\ ~monitors'[k].done]_vars
    /\ [][\A k \in Tasks :
            (/\ k \in 1 .. Len(monitors)
             /\ monitors[k].pc = "loop" /\ monitors'[k] # monitors[k]
             /\ monitors[k].signal_id \in DOMAIN active_signals)
                => /\ monitors'[k].pc = "price"
                   /\ monitors'[k].signal_id = monitors[k].signal_id]_vars
    /\ \A k \in Tasks :
          [](TaskPc(k) = "loop" => <>(TaskPc(k) \in {"price", "done"}))

\* A task whose last price call raised in the connector and returned None
\* is in its next price call, on a signal that is active and untouched.
C23_Witness ==
    \E k \in 1 .. Len(monitors) :
        /\ monitors[k].pc = "price"
        /\ feed_log # <<>>
        /\ feed_log[1].task = k
        /\ feed_log[1].binance.kind = "error"
        /\ feed_log[1].result.returns
        /\ feed_log[1].result.price = None
        /\ monitors[k].signal_id \in DOMAIN active_signals
        /\ polls[active_signals[monitors[k].signal_id]] = <<>>
        /\ metrics[active_signals[monitors[k].signal_id]].status = "active"

\* Whether an answer of Binance is a positive price, and that of Bybit, whose
\* price is its "lastPrice" or, for want of one, its "last_price".
BinanceYields(binance) == binance.kind = "ticker" /\ binance.price > 0
ClaimedBybitPrice(bybit) ==
    IF bybit.lastPrice # 0 THEN bybit.lastPrice ELSE bybit.last_price
BybitYields(bybit) == bybit.kind = "ticker" /\ ClaimedBybitPrice(bybit) > 0

StartedBeforeStop(k) == k \in 1 .. Len(monitors) /\ k <= stopped

\* C26: stop_monitoring cancels every monitor: a task started before the stop
\* returns in the end, and after the stop it evaluates no threshold (polls
\* no object) and issues no write to the store, also when start_monitoring
\* is called again.
C26_StopCancelsMonitors ==
    /\ [][\A k \in Tasks :
            (StartedBeforeStop(k) /\ monitors'[k] # monitors[k]) =>
                /\ polls' = polls
                /\ monitors'[k].pc \in {"final", "write"}
                      => monitors'[k].pc = monitors[k].pc]_vars
    /\ \A k \in Tasks :
          [](StartedBeforeStop(k) => <>(TaskPc(k) = "done"))

\* C27: however stop_monitoring interleaves with a tick that is suspended
\* at a notification or a store write, the step that takes the status of a
\* signal from active to completed or stopped issues the final write of
\* that signal (the task is in it when the step is over), and no call
\* raises: no status is left transitioned without its close handed to the
\* store.
C27_ClosePersisted ==
    [][\A o \in Objects :
          (metrics[o].status = "active" /\ metrics'[o].status # "active") =>
              /\ raised' = "none"
              /\ \E k \in 1 .. Len(monitors') :
                    /\ monitors'[k].pc = "final"
                    /\ monitors'[k].o = o]_vars

\* Task k has just taken a step in which something it awaited failed: the
\* connector raised, send_alert raised, or a write to the store gave up.
FeedFailed(k) ==
    /\ monitors[k].pc = "price" /\ monitors'[k] # monitors[k]
    /\ feed_log'[1].binance.kind = "error"
NotificationFailed(k) ==
    /\ monitors[k].pc = "notify" /\ monitors'[k] # monitors[k]
    /\ sent'[1].outcome = "error"
WriteFailed(k) ==
    /\ monitors[k].pc \in {"final", "write"} /\ monitors'[k] # monitors[k]
    /\ Last(store_log').applied = 0

\* C28: an error of the price feed, of send_alert or of the store in a step
\* of one task ends no task, neither that one nor another, and leaves the
\* other tasks as they are; it raises nothing into the task.  The fill of
\* the hit is there and a failed notification is followed by the terminal
\* transition of a hit that closes (status, close_time, archive); a final
\* write that gave up leaves the signal closed and goes on to the write of
\* line 132, and one of those that gave up returns the event.  A task that
\* is in a notification or a write is back at its loop in the end.
C28_Bulkhead ==
    /\ [][\A k \in 1 .. Len(monitors) :
            (FeedFailed(k) \/ NotificationFailed(k) \/ WriteFailed(k)) =>
                /\ monitors'[k].pc \notin {"done", "hung"}
                /\ \A j \in 1 .. Len(monitors) : j # k => monitors'[j] = monitors[j]
                /\ raised' \in {"none", "KeyError"}
                /\ raised' = "KeyError" => raised' = raised \/ NotificationFailed(k)]_vars
    /\ [][\A k \in 1 .. Len(monitors) :
            NotificationFailed(k) =>
                LET t == monitors[k]
                IN  /\ metrics'[t.o].fills = metrics[t.o].fills
                    /\ \E i \in 1 .. Len(metrics'[t.o].fills) :
                          metrics'[t.o].fills[i].level = t.level
                    /\ HitFlag(metrics'[t.o], t.level)
                    /\ t.close # "" =>
                          /\ metrics'[t.o].status = t.close
                          /\ metrics'[t.o].close_time = now
                          /\ Last(completed_signals') = t.o
                          /\ t.signal_id \notin DOMAIN active_signals'
                    /\ t.close = "" => monitors'[k].pc = "write"]_vars
    /\ [][\A k \in 1 .. Len(monitors) :
            WriteFailed(k) =>
                LET t == monitors[k]
                IN  /\ metrics'[t.o].fills = metrics[t.o].fills
                    /\ metrics'[t.o].status = metrics[t.o].status
                    /\ db' = db
                    /\ t.pc = "final" => monitors'[k].pc = "write"
                    /\ (t.pc = "write" /\ t.event # NoEvent) =>
                          Last(events'[t.o]).event = t.event]_vars
    /\ \A k \in Tasks :
          [](TaskPc(k) \in {"notify", "final", "write"} => <>(TaskPc(k) = "loop"))

\* send_alert raised in the notification of a stop; the signal is stopped
\* and archived all the same and its task is in the final write, while the
\* task of another signal is in its price call.
C28_Witness ==
    \E k, j \in 1 .. Len(monitors) :
        /\ monitors[k].pc = "final"
        /\ sent # <<>>
        /\ sent[1].outcome = "error"
        /\ sent[1].signal_id = monitors[k].signal_id
        /\ metrics[monitors[k].o].status = "stopped"
        /\ monitors[k].o \in {completed_signals[i] : i \in 1 .. Len(completed_signals)}
        /\ monitors[j].signal_id # monitors[k].signal_id
        /\ monitors[j].pc = "price"

\* The tasks that have not finished and monitor the signal with this id.
MonitorsOf(id) ==
    {k \in 1 .. Len(monitors) : monitors[k].pc # "done" /\ monitors[k].signal_id = id}

\* Task k is inside update_signal_price: suspended in the notification or
\* in one of the writes of its call.
Updating(k) == monitors[k].pc \in {"notify", "final", "write"}

\* C29: whatever register_signal, start_monitoring, stop_monitoring and the
\* monitor turns have done, a signal has at most one monitor task, and no
\* two tasks are inside update_signal_price for the same signal at once.
C29_SingleWriter ==
    /\ \A k \in 1 .. Len(monitors) :
          Cardinality(MonitorsOf(monitors[k].signal_id)) <= 1
    /\ \A k, j \in 1 .. Len(monitors) :
          (k # j /\ Updating(k) /\ Updating(j)) => monitors[k].o # monitors[j].o

\* The positions of the archive whose signal has a close_time within the
\* last `days` ticks.
ArchivedWithin(days) ==
    {i \in 1 .. Len(completed_signals) :
        /\ metrics[completed_signals[i]].close_time # None
        /\ metrics[completed_signals[i]].close_time > now - days}

\* The current_roi of the signal at position i of the archive.
ArchivedRoi(i) == metrics[completed_signals[i]].current_roi

RECURSIVE RoiOver(_)
RoiOver(positions) ==
    IF positions = {} THEN 0
    ELSE LET i == CHOOSE x \in positions : TRUE
         IN  ArchivedRoi(i) + RoiOver(positions \ {i})

\* C30: a call of get_statistics(days) changes nothing of the tracker, and
\* what it returns is about exactly the archived signals closed within the
\* last `days`: total_signals is their number, wins those with a positive
\* current_roi, losses the others, win_rate is wins / total * 100, total_roi
\* the sum of their current_roi and average_roi is total_roi / total; with
\* none in the window the total and the rates are zero.
C30_Statistics ==
    [][stats' # stats =>
          LET call == Last(stats')
              r == call.result
              window == ArchivedWithin(call.days)
              total == Cardinality(window)
          IN  /\ UNCHANGED <<metrics, active_signals, completed_signals, db,
                             now, polls, events, monitors, raised>>
              /\ r.total_signals = total
              /\ r.total_roi = RoiOver(window)
              /\ total = 0 =>
                    /\ r.win_rate = [num |-> 0, den |-> 1]
                    /\ r.average_roi = [num |-> 0, den |-> 1]
              /\ total > 0 =>
                    /\ r.wins = Cardinality({i \in window : ArchivedRoi(i) > 0})
                    /\ r.losses = Cardinality({i \in window : ArchivedRoi(i) <= 0})
                    /\ r.wins + r.losses = total
                    /\ r.win_rate.den > 0
                    /\ r.win_rate.num * total = r.wins * 100 * r.win_rate.den
                    /\ r.average_roi.den > 0
                    /\ r.average_roi.num * total = r.total_roi * r.average_roi.den]_vars

\* get_statistics was called with two signals in the archive, one closed
\* before the window and one within it, a win.
C30_Witness ==
    /\ stats # <<>>
    /\ Len(completed_signals) = 2
    /\ stats[1].result.total_signals = 1
    /\ stats[1].result.wins = 1
    /\ stats[1].result.total_roi > 0
    /\ \E i \in 1 .. 2 :
          metrics[completed_signals[i]].close_time <= now - stats[1].days

\* Object o was built by _load_active_signals_from_db.
IsLoaded(o) == Len(metrics[o].signal_id) = 3

\* The row an object built by the load was read from.
RowOf(o) == db[metrics[o].signal_id[3]]

\* The hit flag of a level as the row has it.
RowHit(row, level) ==
    CASE level = "tp1" -> row.tp1_hit
      [] level = "tp2" -> row.tp2_hit
      [] level = "tp3" -> row.tp3_hit
      [] level = "stop_loss" -> row.sl_hit
      [] OTHER -> FALSE

\* C31: an object built by _load_active_signals_from_db has the hit flags of
\* the row it was read from, and a level whose flag the row has as true
\* fires no event and appends no fill on such an object.
C31_FlagsSurviveReload ==
    /\ [][\A o \in (Len(metrics) + 1) .. Len(metrics') :
             IsLoaded(o)' =>
                 \A level \in TPLevels \cup {"stop_loss"} :
                     HitFlag(metrics'[o], level) = RowHit(RowOf(o)', level)]_vars
    /\ [][\A o \in 1 .. Len(metrics) :
             (IsLoaded(o) /\ Len(metrics'[o].fills) > Len(metrics[o].fills)) =>
                 ~RowHit(RowOf(o), Last(metrics'[o].fills).level)]_vars
    /\ [][\A o \in 1 .. Len(metrics) :
             (IsLoaded(o) /\ Len(events'[o]) > Len(events[o])) =>
                 ~RowHit(RowOf(o), Last(events'[o]).level)]_vars

\* Two objects stand for one persisted record: the row the UPDATE
\* statements address by symbol and timestamp.
SameRecord(o1, o2) ==
    /\ metrics[o1].symbol = metrics[o2].symbol
    /\ metrics[o1].entry_time = metrics[o2].entry_time

\* C32: a record read back by _load_active_signals_from_db is tracked under
\* the id its registration returned: every object of a record has the one
\* id, the active set has no two entries for one record, and no two
\* unfinished monitor tasks have different ids of one record.
C32_StableId ==
    /\ \A o1, o2 \in 1 .. Len(metrics) :
          SameRecord(o1, o2) => metrics[o1].signal_id = metrics[o2].signal_id
    /\ \A id1, id2 \in DOMAIN active_signals :
          SameRecord(active_signals[id1], active_signals[id2]) => id1 = id2
    /\ \A k, j \in 1 .. Len(monitors) :
          \A o1, o2 \in 1 .. Len(metrics) :
              (/\ monitors[k].pc # "done" /\ monitors[j].pc # "done"
               /\ metrics[o1].signal_id = monitors[k].signal_id
               /\ metrics[o2].signal_id = monitors[j].signal_id
               /\ SameRecord(o1, o2))
                  => monitors[k].signal_id = monitors[j].signal_id

\* C33: in a call that closes a signal the final update is the last store
\* write issued, no non-final update follows it, and when the final update
\* was applied the roi the rows of the signal hold after the call is the
\* final ROI, the sum of the weighted contributions of its fills.
C33_FinalWriteLast ==
    [][\A o \in Objects :
          (metrics[o].status = "active" /\ metrics'[o].status # "active"
              /\ store_log' # <<>>) =>
              /\ Last(store_log').final
              /\ \A i \in 1 .. Len(store_log') :
                    store_log'[i].final => i = Len(store_log')
              /\ store_log'[1].applied > 0 =>
                    \A i \in RowsOf(o)' : db'[i].roi = ClosedRoi(metrics'[o])]_vars

\* The price satisfies the tp3 or the stop_loss condition of the signal.
TerminalPrice(m, price) ==
    IF m.direction = "long"
    THEN price >= m.tp3 \/ price <= m.stop_loss
    ELSE price <= m.tp3 \/ price >= m.stop_loss

\* Task k is in the update_signal_price call of a tick whose price
\* satisfies the tp3 or the stop_loss condition of its signal, one with a
\* nonzero entry price.
InTerminalTick(k) ==
    /\ k \in 1 .. Len(monitors)
    /\ monitors[k].pc \in {"notify", "final", "write"}
    /\ metrics[monitors[k].o].entry_price # 0
    /\ TerminalPrice(metrics[monitors[k].o], monitors[k].price)

\* C34: when the price of a tick satisfies the tp3 or the stop_loss
\* condition of the signal, which has a nonzero entry price, the signal is
\* retired by the end of that tick (closed, and its id out of the active
\* set); the task of the tick never asks for a price again and returns.
C34_TerminalTickRetires ==
    /\ [][\A k \in 1 .. Len(monitors) :
             (InTerminalTick(k) /\ monitors'[k].pc = "loop") =>
                 /\ metrics'[monitors[k].o].status # "active"
                 /\ monitors[k].signal_id \notin DOMAIN active_signals']_vars
    /\ \A k \in 1 .. MaxOverlapTasks :
          [](InTerminalTick(k) => [](TaskPc(k) # "price"))
    /\ \A k \in 1 .. MaxOverlapTasks :
          [](InTerminalTick(k) => <>(TaskPc(k) = "done"))

\* C35: with two tasks polling one signal, the update_signal_price call of
\* one running while that of the other is suspended in its notification or
\* in a write, no level of a signal with nonzero entry price has two fills
\* or two events, returned or about to be.
C35_NoDoubleFill ==
    \A o \in Objects :
        metrics[o].entry_price # 0 =>
            \A level \in AllLevels :
                /\ Occurrences(metrics[o].fills, level) <= 1
                /\ Occurrences(events[o], level)
                      + Cardinality({k \in 1 .. Len(monitors) :
                                        /\ Updating(k)
                                        /\ monitors[k].o = o
                                        /\ monitors[k].level = level
                                        /\ monitors[k].event # NoEvent}) <= 1

\* Two calls for one signal are suspended at once, both on the same price;
\* one has taken the branch of a level and the other has not.
C35_Witness ==
    \E k, j \in 1 .. Len(monitors) :
        /\ k # j
        /\ Updating(k) /\ Updating(j)
        /\ monitors[k].o = monitors[j].o
        /\ metrics[monitors[k].o].entry_price # 0
        /\ monitors[k].price = monitors[j].price
        /\ monitors[k].level \in AllLevels
        /\ monitors[j].level # monitors[k].level
        /\ Occurrences(metrics[monitors[k].o].fills, monitors[k].level) = 1

\* C36: in every state the active set and the completed archive agree: no
\* object is in both, none is in the archive twice, every object of the
\* active set has status active and no close_time, and every archived one
\* has status completed or stopped and a close_time.
C36_ActiveArchiveConsistent ==
    /\ \A id \in DOMAIN active_signals :
          /\ \A i \in 1 .. Len(completed_signals) :
                completed_signals[i] # active_signals[id]
          /\ metrics[active_signals[id]].status = "active"
          /\ metrics[active_signals[id]].close_time = None
    /\ \A i, j \in 1 .. Len(completed_signals) :
          completed_signals[i] = completed_signals[j] => i = j
    /\ \A i \in 1 .. Len(completed_signals) :
          /\ metrics[completed_signals[i]].status \in {"completed", "stopped"}
          /\ metrics[completed_signals[i]].close_time # None

\* At most one monitor task was ever created for the signal of object o.
SingleMonitor(o) ==
    Cardinality({k \in 1 .. Len(monitors) :
                    monitors[k].signal_id = metrics[o].signal_id}) <= 1

DefinitionOf(o) ==
    [symbol |-> metrics[o].symbol, direction |-> metrics[o].direction,
     entry_price |-> metrics[o].entry_price, stop_loss |-> metrics[o].stop_loss,
     tp1 |-> metrics[o].tp1, tp2 |-> metrics[o].tp2, tp3 |-> metrics[o].tp3]

\* The tracker of trading/roi_tracker.py after the calls object o has seen:
\* the same registration and the same prices.
Twin(o) ==
    trading_run(trading_register_signal(DefinitionOf(o), metrics[o].entry_time),
                polls[o], now)

\* No other registration took the id of object o.
OwnId(o) == \A o2 \in Objects : metrics[o2].signal_id = metrics[o].signal_id => o2 = o

\* C38: after every call, a signal with nonzero entry price is the same in
\* the two trackers: the events returned, the hit flags, the fills, the
\* current_roi, the status and close_time, and whether it is in the active
\* set and in the archive; neither call raises.
C38_TrackersEquivalent ==
    \A o \in Objects :
        (metrics[o].entry_price # 0 /\ OwnId(o)) =>
            LET tr == Twin(o)
                m == metrics[o]
            IN  /\ tr.events = events[o]
                /\ \A level \in AllLevels : HitFlag(tr.m, level) = HitFlag(m, level)
                /\ tr.m.fills = m.fills
                /\ tr.m.current_roi = m.current_roi
                /\ tr.m.status = m.status
                /\ tr.m.close_time = m.close_time
                /\ tr.active <=> m.signal_id \in DOMAIN active_signals
                /\ tr.archived = Cardinality({i \in 1 .. Len(completed_signals) :
                                                 completed_signals[i] = o})
                /\ tr.raised = "none" /\ raised = "none"

\* Both trackers have taken a signal through the first target, the second
\* and the stop.
C38_Witness ==
    \E o \in Objects :
        /\ metrics[o].entry_price # 0
        /\ OwnId(o)
        /\ LevelsOf(metrics[o].fills) = <<"tp1", "tp2", "stop_loss">>
        /\ LevelsOf(Twin(o).m.fills) = <<"tp1", "tp2", "stop_loss">>
        /\ Twin(o).m.status = "stopped"
        /\ Twin(o).archived = 1

\* The step is an update_signal_price call on object o, an active signal
\* none of whose not-yet-hit thresholds the price satisfies.
QuietCall(o) ==
    /\ polls'[o] # polls[o]
    /\ Threshold(metrics[o], Last(polls'[o])) = "none"

====
